---- MODULE Spec2Model ----
(***************************************************************************)
(* A model of mmfparse: mmfParser.import_records (src/mmfparse/core.py)    *)
(* and the dictionaries of src/mmfparse/util.py.                           *)
(*                                                                         *)
(* Python strings are sequences of one-character strings; None is Null.    *)
(* The regular expressions of import_records are operators that compute    *)
(* what Python's re module computes for them (leftmost match, greedy and   *)
(* lazy quantifiers, backtracking, \b, lookahead and lookbehind).          *)
(***************************************************************************)
EXTENDS Integers, Sequences, FiniteSets, TLC

VARIABLES
    pc,             \* position in import_records: "start", "loop", "record", "done"
    input,          \* the content of the input file (core.py:291-294)
    text,           \* the list of raw records still to process (core.py:301, 388)
    raw,            \* the raw record popped last (core.py:388)
    pairs,          \* kv.findall of the popped record (core.py:396)
    record,         \* the collated record, a mapping code -> value (core.py:396-397)
    err,            \* the ErrorDict shared by the whole batch (core.py:379)
    unused_codes,   \* the set of unused codes of the current record (core.py:391)
    edition_id,     \* the local edition_id, set after inserting an edition (core.py:495, 576)
    successes,      \* core.py:380
    errors,         \* core.py:381
    mmf_work,       \* rows inserted by insert_work, in order; the key is the index
    mmf_edition,    \* rows inserted by insert_edition
    mmf_holding,    \* rows inserted by insert_holdings
    mmf_ref,        \* rows inserted by insert_references
    mmf_error,      \* rows inserted by insert_error
    log,            \* history: one entry per record processed, in processing order
    foo,            \* a DupeDict (util.py:3-37), a mapping str -> value
    calls           \* history: the calls made on foo, in order

vars == <<pc, input, text, raw, pairs, record, err, unused_codes, edition_id,
          successes, errors, mmf_work, mmf_edition, mmf_holding, mmf_ref,
          mmf_error, log, foo, calls>>

-----------------------------------------------------------------------------
(* Characters and strings *)

\* Python's None, for a value that is otherwise a string
Null == <<"NULL">>

\* Python's None, for a key of a table (keys are 1, 2, ...)
NoId == 0

Digit == {"0","1","2","3","4","5","6","7","8","9"}

Upper == {"A","B","C","D","E","F","G","H","I","J","K","L","M",
          "N","O","P","Q","R","S","T","U","V","W","X","Y","Z"}

Lower == {"a","b","c","d","e","f","g","h","i","j","k","l","m",
          "n","o","p","q","r","s","t","u","v","w","x","y","z"}

\* the accented letters the ASCII table produces, each one character, written
\* by name; they are letters to \w as well
Accented == {"E_acute","e_acute","e_grave","a_grave","e_circ","a_circ","i_circ",
             "o_circ","u_circ","a_uml","e_uml","i_uml","o_uml","u_uml",
             "c_cedilla","u_grave","oe","OE"}

\* \w of a str pattern
WordCh == Digit \cup Upper \cup Lower \cup Accented \cup {"_"}

\* \s
Space == {" ", "\n", "\t", "\r", "\f"}

Min(S) == CHOOSE x \in S : \A y \in S : x <= y

Max(S) == CHOOSE x \in S : \A y \in S : x >= y

\* s[i:j] with 1-based inclusive bounds; empty when j < i
Sub(s, i, j) == IF j < i THEN <<>> ELSE SubSeq(s, i, j)

\* the literal lit occurs in s at position i
MatchAt(s, lit, i) ==
    /\ i >= 1
    /\ i + Len(lit) - 1 <= Len(s)
    /\ \A k \in 1..Len(lit) : s[i + k - 1] = lit[k]

\* the first position >= p where lit occurs in s, or 0
FindFrom(s, lit, p) ==
    LET hits == {i \in p..(Len(s) - Len(lit) + 1) : s[i] = lit[1] /\ MatchAt(s, lit, i)}
    IN  IF hits = {} THEN 0 ELSE Min(hits)

\* the characters of s at the positions of K, in order: the j-th one is at
\* the position that has j - 1 kept positions below it
Keep(s, K) ==
    LET gone == (1..Len(s)) \ K
        at(j) == CHOOSE i \in j..(j + Cardinality(gone)) :
                    i \in K /\ i - Cardinality({g \in gone : g < i}) = j
    IN  IF gone = {} THEN s
        ELSE [j \in 1..(Len(s) - Cardinality(gone)) |-> s[at(j)]]

\* the concatenation of a sequence of strings: ''.join(parts)
RECURSIVE Join(_)
Join(parts) == IF parts = <<>> THEN <<>> ELSE Head(parts) \o Join(Tail(parts))

\* str.replace(old, new): every non-overlapping occurrence, leftmost first
RECURSIVE ReplaceFrom(_, _, _, _)
ReplaceFrom(s, old, new, p) ==
    LET i == FindFrom(s, old, p)
    IN  IF i = 0 THEN Sub(s, p, Len(s))
        ELSE Sub(s, p, i - 1) \o new \o ReplaceFrom(s, old, new, i + Len(old))

Replace(s, old, new) ==
    IF FindFrom(s, old, 1) = 0 THEN s ELSE ReplaceFrom(s, old, new, 1)

\* str.split(sep): the parts between the non-overlapping occurrences of sep
RECURSIVE SplitFrom(_, _, _)
SplitFrom(s, sep, p) ==
    LET i == FindFrom(s, sep, p)
    IN  IF i = 0 THEN <<Sub(s, p, Len(s))>>
        ELSE <<Sub(s, p, i - 1)>> \o SplitFrom(s, sep, i + Len(sep))

Split(s, sep) == SplitFrom(s, sep, 1)

\* str.strip(): without the leading and trailing whitespace
Strip(s) ==
    LET solid == {i \in 1..Len(s) : s[i] \notin Space}
    IN  IF solid = {} THEN <<>> ELSE SubSeq(s, Min(solid), Max(solid))

\* str.startswith(prefix)
StartsWith(s, prefix) == MatchAt(s, prefix, 1)

\* a word character stands at position i of s
IsWordAt(s, i) == i >= 1 /\ i <= Len(s) /\ s[i] \in WordCh

\* \b holds between positions i-1 and i of s
Boundary(s, i) == IsWordAt(s, i - 1) # IsWordAt(s, i)

\* $ (without MULTILINE) holds at position p: the end, or before a last newline
AtEnd(s, p) == p = Len(s) + 1 \/ (p = Len(s) /\ s[p] = "\n")

\* the first position >= p that holds no character of class C (Len(s)+1 at most)
RunEnd(s, C, p) ==
    LET out == {i \in p..Len(s) : s[i] \notin C}
    IN  IF out = {} THEN Len(s) + 1 ELSE Min(out)

-----------------------------------------------------------------------------
(* The regular expressions of import_records (core.py:306-331) *)

\* nl = \n(?!%) ; nl.sub(" ", s): a newline not followed by % becomes a space
nl_sub(s) ==
    [i \in 1..Len(s) |->
        IF s[i] = "\n" /\ ~(i < Len(s) /\ s[i + 1] = "%") THEN " " ELSE s[i]]

\* the lookahead (?=\n+|$) of ds at position p
ds_ahead(s, p) == (p <= Len(s) /\ s[p] = "\n") \/ AtEnd(s, p)

\* ds = \$\s?(?=\n+|$) ; the length of its match at position i (0: no match).
\* \s? is greedy: the whitespace is taken when the lookahead holds after it.
ds_len(s, i) ==
    IF s[i] # "$" THEN 0
    ELSE IF i + 1 <= Len(s) /\ s[i + 1] \in Space /\ ds_ahead(s, i + 2) THEN 2
    ELSE IF ds_ahead(s, i + 1) THEN 1
    ELSE 0

\* ds.sub("", s): the matches of ds are removed
ds_sub(s) ==
    LET gone == {i \in 1..Len(s) : ds_len(s, i) > 0}
                \cup {i \in 2..Len(s) : ds_len(s, i - 1) = 2}
    IN  Keep(s, (1..Len(s)) \ gone)

\* kv_code_end for a code (\d{1,3}|Incipit): up to three digits are taken
kv_code_end_ThreeDigits(s, a) ==
    IF a <= Len(s) /\ s[a] \in Digit
    THEN Min({RunEnd(s, Digit, a), a + 3})
    ELSE IF MatchAt(s, <<"I","n","c","i","p","i","t">>, a) THEN a + 7
    ELSE 0

\* the position after the code (\d{1,2}|Incipit) that starts at a, or 0
kv_code_end(s, a) ==
    IF a <= Len(s) /\ s[a] \in Digit
    THEN IF a + 1 <= Len(s) /\ s[a + 1] \in Digit THEN a + 2 ELSE a + 1
    ELSE IF MatchAt(s, <<"I","n","c","i","p","i","t">>, a) THEN a + 7
    ELSE 0

\* \s*(?:\n|$) at position q: the position after the match, or 0.
\* \s* takes the whole run of whitespace and gives it back one character at
\* a time until a newline or the end follows.
kv_tail(s, q) ==
    LET m == RunEnd(s, Space, q)
        nls == {r \in q..(m - 1) : s[r] = "\n"}
    IN  IF m = Len(s) + 1 THEN m
        ELSE IF nls # {} THEN Max(nls) + 1
        ELSE 0

\* the first position >= p of s that holds a newline (Len(s)+1 at most)
NextNewline(s, p) ==
    LET at == {i \in p..Len(s) : s[i] = "\n"}
    IN  IF at = {} THEN Len(s) + 1 ELSE Min(at)

\* kv = <?(\d{1,2}|Incipit)>?:(.+?)\s*(?:\n|$) ; its match at position i:
\* [ok, code, value, next], next the position after the match.
\* (.+?) is lazy: the shortest run of one or more non-newlines that the
\* tail \s*(?:\n|$) follows.
kv_at(s, i) ==
    LET a == IF i <= Len(s) /\ s[i] = "<" THEN i + 1 ELSE i
        c == kv_code_end(s, a)
        d == IF c # 0 /\ c <= Len(s) /\ s[c] = ">" THEN c + 1 ELSE c
        v == d + 1
        qs == {q \in (v + 1)..NextNewline(s, v) : kv_tail(s, q) # 0}
        q == Min(qs)
    IN  IF c # 0 /\ d <= Len(s) /\ s[d] = ":" /\ qs # {}
        THEN [ok |-> TRUE, code |-> SubSeq(s, a, c - 1),
              value |-> SubSeq(s, v, q - 1), next |-> kv_tail(s, q)]
        ELSE [ok |-> FALSE, code |-> <<>>, value |-> <<>>, next |-> 0]

\* kv.findall(s) from position p on: the (code, value) pairs, in source order
RECURSIVE kv_findall_from(_, _)
kv_findall_from(s, p) ==
    LET starts == {i \in p..Len(s) : s[i] = ":"}
        hits == {i \in p..Len(s) : kv_at(s, i).ok}
        i == Min(hits)
        m == kv_at(s, i)
    IN  IF starts = {} \/ hits = {} THEN <<>>
        ELSE <<<<m.code, m.value>>>> \o kv_findall_from(s, m.next)

kv_findall(s) == kv_findall_from(s, 1)

\* ne = ^<\d{1,2}>$|^\$?[\s\n]+$ ; ne.match(v)
ne_match(v) ==
    LET n == IF Len(v) >= 1 /\ v[Len(v)] = "\n" THEN Len(v) - 1 ELSE Len(v)
        w == IF Len(v) >= 1 /\ v[1] = "$" THEN 2 ELSE 1
    IN  \/ /\ n \in {3, 4}
           /\ v[1] = "<"
           /\ v[n] = ">"
           /\ \A k \in 2..(n - 1) : v[k] \in Digit
        \/ /\ w <= Len(v)
           /\ \A k \in w..Len(v) : v[k] \in Space

\* pages_rgx = \b\d+\b ; the position after its match at position i, or 0.
\* \d+ takes the whole run of digits; a shorter run ends between two digits,
\* where \b cannot hold.
pages_end(s, i) ==
    LET m == RunEnd(s, Digit, i)
    IN  IF i <= Len(s) /\ s[i] \in Digit /\ Boundary(s, i) /\ Boundary(s, m)
        THEN m ELSE 0

\* pages_rgx.findall(s) from position p on
RECURSIVE pages_findall_from(_, _)
pages_findall_from(s, p) ==
    LET hits == {i \in p..Len(s) : pages_end(s, i) # 0}
        i == Min(hits)
    IN  IF hits = {} THEN <<>>
        ELSE <<SubSeq(s, i, pages_end(s, i) - 1)>>
             \o pages_findall_from(s, pages_end(s, i))

pages_rgx_findall(s) == pages_findall_from(s, 1)

\* pages_rgx.sub('', s): the matches are removed.  No two matches overlap: a
\* match is a whole run of digits.
pages_rgx_sub(s) ==
    LET gone == {k \in 1..Len(s) :
                    \E i \in 1..k : pages_end(s, i) # 0 /\ k < pages_end(s, i)}
    IN  Keep(s, (1..Len(s)) \ gone)

\* (?:\d{2}\w{2}|s\.d\.)\.[A-Z ]{3}\.[a-z\d]{3}\b at position i
signature_at(s, i) ==
    /\ i + 11 <= Len(s)
    /\ \/ /\ s[i] \in Digit
          /\ s[i + 1] \in Digit
          /\ s[i + 2] \in WordCh
          /\ s[i + 3] \in WordCh
       \/ MatchAt(s, <<"s",".","d",".">>, i)
    /\ s[i + 4] = "."
    /\ \A k \in 5..7 : s[i + k] \in Upper \cup {" "}
    /\ s[i + 8] = "."
    /\ \A k \in 9..11 : s[i + k] \in Lower \cup Digit
    /\ Boundary(s, i + 12)

\* wrk_id_rgx = ^(?:\d{2}\w{2}|s\.d\.)\.[A-Z ]{3}\.[a-z\d]{3}\b ; findall(s)
wrk_id_rgx_findall(s) ==
    IF signature_at(s, 1) THEN <<SubSeq(s, 1, 12)>> ELSE <<>>

\* ed_id_rgx = ^.{12} (?:\d{2}\w{2}|s\.d\.)\.[A-Z ]{3}\.[a-z\d]{3}\b ; findall(s)
ed_id_rgx_findall(s) ==
    IF /\ Len(s) >= 25
       /\ \A k \in 1..12 : s[k] # "\n"
       /\ s[13] = " "
       /\ signature_at(s, 14)
    THEN <<SubSeq(s, 1, 25)>> ELSE <<>>

\* title_rgx = Z[12] ; a match at position i
title_at(s, i) == i + 1 <= Len(s) /\ s[i] = "Z" /\ s[i + 1] \in {"1", "2"}

\* title_rgx.search(s)
title_rgx_search(s) == \E i \in 1..Len(s) : title_at(s, i)

\* title_rgx.split(s) from position p on
RECURSIVE title_split_from(_, _)
title_split_from(s, p) ==
    LET hits == {i \in p..Len(s) : title_at(s, i)}
        i == Min(hits)
    IN  IF hits = {} THEN <<Sub(s, p, Len(s))>>
        ELSE <<Sub(s, p, i - 1)>> \o title_split_from(s, i + 2)

title_rgx_split(s) == title_split_from(s, 1)

\* the lookbehind (?<!\b\d{2}) of hidden_rgx at position e: the two characters
\* before e are not two digits that start at a word boundary
hidden_behind(s, e) ==
    ~(e >= 3 /\ s[e - 2] \in Digit /\ s[e - 1] \in Digit /\ Boundary(s, e - 2))

\* hidden_rgx with the run of x between two \b, as the run of z is:
\* (\bz+\b|ENTERED|\bx+\b)
hidden_rgx_search_WholeWord(s) ==
    \/ \E i \in 1..Len(s) :
          /\ s[i] \in {"z", "Z"}
          /\ Boundary(s, i)
          /\ Boundary(s, RunEnd(s, {"z", "Z"}, i))
    \/ \E i \in 1..Len(s) :
          /\ i + 6 <= Len(s)
          /\ s[i] \in {"E", "e"}
          /\ s[i + 1] \in {"N", "n"}
          /\ s[i + 2] \in {"T", "t"}
          /\ s[i + 3] \in {"E", "e"}
          /\ s[i + 4] \in {"R", "r"}
          /\ s[i + 5] \in {"E", "e"}
          /\ s[i + 6] \in {"D", "d"}
    \/ \E i \in 1..Len(s) :
          /\ s[i] \in {"x", "X"}
          /\ Boundary(s, i)
          /\ Boundary(s, RunEnd(s, {"x", "X"}, i))

\* hidden_rgx = (\bz+\b|ENTERED|x+(?<!\b\d{2})) with re.I ; search(s).
\* A run of z between two \b is a whole run: inside a run \b cannot hold.
\* A run of x may end anywhere the lookbehind allows.
hidden_rgx_search(s) ==
    \/ \E i \in 1..Len(s) :
          /\ s[i] \in {"z", "Z"}
          /\ Boundary(s, i)
          /\ Boundary(s, RunEnd(s, {"z", "Z"}, i))
    \/ \E i \in 1..Len(s) :
          /\ i + 6 <= Len(s)
          /\ s[i] \in {"E", "e"}
          /\ s[i + 1] \in {"N", "n"}
          /\ s[i + 2] \in {"T", "t"}
          /\ s[i + 3] \in {"E", "e"}
          /\ s[i + 4] \in {"R", "r"}
          /\ s[i + 5] \in {"E", "e"}
          /\ s[i + 6] \in {"D", "d"}
    \/ \E i \in 1..Len(s) :
          /\ s[i] \in {"x", "X"}
          /\ \E e \in (i + 1)..RunEnd(s, {"x", "X"}, i) : hidden_behind(s, e)

\* holding_rgx = \b[\w\-]+-[A-Z]{1,5}\b ; the position after its match at
\* position i, or 0.  [\w\-]+ takes the whole run of name characters and gives
\* it back one at a time; [A-Z]{1,5} takes up to five capitals and gives them
\* back one at a time; the first combination that ends at a \b is the match.
holding_end(s, i) ==
    LET m == RunEnd(s, WordCh \cup {"-"}, i)
        \* e: the last character of the name; k: the number of capitals
        ends == {<<e, k>> \in (i..(m - 2)) \X (1..5) :
                    /\ s[e + 1] = "-"
                    /\ e + 1 + k <= Len(s)
                    /\ \A c \in 1..k : s[e + 1 + c] \in Upper
                    /\ Boundary(s, e + 2 + k)}
        eMax == Max({x[1] : x \in ends})
        kMax == Max({x[2] : x \in {y \in ends : y[1] = eMax}})
    IN  IF i <= Len(s) /\ Boundary(s, i) /\ m > i /\ ends # {}
        THEN eMax + 2 + kMax ELSE 0

\* holding_rgx.findall(s) from position p on
RECURSIVE holding_findall_from(_, _)
holding_findall_from(s, p) ==
    LET hits == {i \in p..Len(s) : holding_end(s, i) # 0}
        i == Min(hits)
    IN  IF hits = {} THEN <<>>
        ELSE <<SubSeq(s, i, holding_end(s, i) - 1)>>
             \o holding_findall_from(s, holding_end(s, i))

holding_rgx_findall(s) == holding_findall_from(s, 1)

-----------------------------------------------------------------------------
(* The constants of mmfParser (core.py:25-98) *)

\* EDITION_CODES, in the order of the dict (core.py:26-43)
EDITION_CODES == <<
    <<<<"0">>, "full_identifier">>,
    <<<<"1">>, "work_identifier">>,
    <<<<"0","1">>, "ed_identifier">>,
    <<<<"2","0">>, "edition_counter">>,
    <<<<"0","4">>, "translation">>,
    <<<<"0","2">>, "author">>,
    <<<<"0","3">>, "translator">>,
    <<<<"2","1">>, "short_title">>,
    <<<<"2","2">>, "long_title">>,
    <<<<"2","3">>, "collection_title">>,
    <<<<"2","4">>, "publication_details">>,
    <<<<"2","5">>, "holdings">>,
    <<<<"2","6">>, "comments">>,
    <<<<"1","9">>, "final_comments">>,
    <<<<"3","0">>, "first_text">>,
    <<<<"I","n","c","i","p","i","t">>, "first_text">> >>

\* WORK_CODES, in the order of the dict (core.py:44-65)
WORK_CODES == <<
    <<<<"0">>, "full_identifier">>,
    <<<<"1">>, "work_identifier">>,
    <<<<"4">>, "translation">>,
    <<<<"2">>, "author">>,
    <<<<"3">>, "translator">>,
    <<<<"5">>, "title">>,
    <<<<"6">>, "publication_details">>,
    <<<<"7">>, "holdings">>,
    <<<<"8">>, "contemporary_references">>,
    <<<<"9">>, "later_references">>,
    <<<<"1","0">>, "comments">>,
    <<<<"1","1">>, "bur_references">>,
    <<<<"1","2">>, "bur_comments">>,
    <<<<"1","3">>, "original_title">>,
    <<<<"1","4">>, "translation_comments">>,
    <<<<"1","5">>, "description">>,
    <<<<"1","8">>, "re_editions">>,
    <<<<"1","9">>, "final_comments">>,
    <<<<"3","0">>, "first_text">>,
    <<<<"I","n","c","i","p","i","t">>, "first_text">> >>

\* ASCII_CODES, in the order of the dict (core.py:68-98); an accented letter is
\* one character, written by its name
ASCII_CODES == <<
    <<<<"E","%">>, <<"E_acute">> >>,
    <<<<"{">>, <<"e_acute">> >>,
    <<<<"}">>, <<"e_grave">> >>,
    <<<<"@">>, <<"a_grave">> >>,
    <<<<"e","^">>, <<"e_circ">> >>,
    <<<<"a","^">>, <<"a_circ">> >>,
    <<<<"i","^">>, <<"i_circ">> >>,
    <<<<"o","^">>, <<"o_circ">> >>,
    <<<<"u","^">>, <<"u_circ">> >>,
    <<<<"a","~">>, <<"a_uml">> >>,
    <<<<"e","~">>, <<"e_uml">> >>,
    <<<<"i","~">>, <<"i_uml">> >>,
    <<<<"o","~">>, <<"o_uml">> >>,
    <<<<"u","~">>, <<"u_uml">> >>,
    <<<<"\\">>, <<"c_cedilla">> >>,
    <<<<"O","|">>, <<"O", "u_grave">> >>,
    <<<<"o","|">>, <<"o", "u_grave">> >>,
    <<<<"o","+","e">>, <<"oe">> >>,
    <<<<"O","+","E">>, <<"OE">> >>,
    <<<<"/",".",".",".","/">>, <<"[",".",".",".","]">> >>,
    <<<<"/","s","i","c","/">>, <<"[","s","i","c","]">> >>,
    <<<<"/","s","i","c","=","=","/">>, <<"[","s","i","c","]">> >>,
    <<<<"/","=","=">>, <<"[">> >>,
    <<<<"=","=","/">>, <<"]">> >>,
    <<<<"/","_">>, <<"[">> >>,
    <<<<"_","/">>, <<"]">> >>,
    <<<<"Z","3">>, <<>> >>,
    <<<<"`">>, <<"'">> >>,
    <<<<"\"">>, <<"'">> >> >>

\* the keys of a code table
Codes(table) == {table[k][1] : k \in 1..Len(table)}

\* {}.fromkeys(table.values()): every field of the table, None
FromKeys(table) == [f \in {table[k][2] : k \in 1..Len(table)} |-> Null]

\* the columns insert_work writes, but the key (core.py:335-342)
WorkColumns == {"uuid", "work_identifier", "translation", "title", "comments",
                "bur_references", "bur_comments", "original_title",
                "translation_comments", "description"}

\* the columns insert_edition writes, but the key (core.py:343-351)
EditionColumns == {"work_id", "uuid", "work_identifier", "ed_identifier",
                   "edition_counter", "translation", "author", "translator",
                   "short_title", "long_title", "collection_title",
                   "publication_details", "comments", "final_comments",
                   "first_text"}

\* the file name given to import_records, and date.today()
Filename == <<"m","m","f",".","t","x","t">>

Today == <<"today">>

-----------------------------------------------------------------------------
(* Reading and splitting the input (core.py:290-301) *)

\* for old, new in ASCII_CODES.items(): text = text.replace(old, new)
\* (each replacement is computed before the next one is applied to it)
RECURSIVE ReplaceAll(_, _, _)
ReplaceAll(t, table, k) ==
    LET t1 == Replace(t, table[k][1], table[k][2])
    IN  IF k > Len(table) THEN t
        ELSE IF Len(t1) >= 0 THEN ReplaceAll(t1, table, k + 1)
        ELSE t1

Terminator == <<"\n","%","E","n","d",":","\n">>

\* the list of raw records of an input file
SplitRecords(t) == Split(ReplaceAll(t, ASCII_CODES, 1), Terminator)

-----------------------------------------------------------------------------
(* Extracting a record into a dict (core.py:393-397) *)

\* kv.findall of the record, after nl and ds
Tokenize(r) == kv_findall(ds_sub(nl_sub(r)))

\* the keys of dict(ps), in the order of the dict: the order of first insertion
RECURSIVE KeyOrder(_)
KeyOrder(ps) ==
    IF ps = <<>> THEN <<>>
    ELSE LET rest == KeyOrder(SubSeq(ps, 1, Len(ps) - 1))
             k == ps[Len(ps)][1]
         IN  IF \E j \in 1..Len(rest) : rest[j] = k THEN rest ELSE Append(rest, k)

\* dict(ps): a later pair replaces the value of an earlier pair with its code
DictOf(ps) ==
    [k \in {ps[j][1] : j \in 1..Len(ps)} |->
        ps[Max({j \in 1..Len(ps) : ps[j][1] = k})][2]]

\* {k: v.strip() for k, v in record.items() if not ne.match(v)}
DropNull(d) == [k \in {c \in DOMAIN d : ~ne_match(d[c])} |-> Strip(d[k])]

\* the collated record of a list of pairs
Collate(ps) == DropNull(DictOf(ps))

\* the keys of the collated record, in the order of the dict
CollatedOrder(ps) ==
    LET keys == DOMAIN Collate(ps)
    IN  SelectSeq(KeyOrder(ps), LAMBDA k : k \in keys)

\* repr of a str that holds no backslash, no double quote and no control
\* character (the ASCII table removes the first two): in single quotes, in
\* double quotes when it holds a single quote
Repr(s) ==
    IF \E i \in 1..Len(s) : s[i] = "'" THEN <<"\"">> \o s \o <<"\"">>
    ELSE <<"'">> \o s \o <<"'">>

\* the items of str(a dict) from the k-th key on
RECURSIVE StrItems(_, _, _)
StrItems(d, order, k) ==
    IF k > Len(order) THEN <<>>
    ELSE (IF k > 1 THEN <<","," ">> ELSE <<>>)
         \o Repr(order[k]) \o <<":"," ">> \o Repr(d[order[k]])
         \o StrItems(d, order, k + 1)

\* str(record)
StrRecord(d, order) == <<"{">> \o StrItems(d, order, 1) \o <<"}">>

\* the items of str(a set of str), listed in the given order
RECURSIVE StrElems(_, _)
StrElems(order, k) ==
    IF k > Len(order) THEN <<>>
    ELSE (IF k > 1 THEN <<","," ">> ELSE <<>>) \o Repr(order[k]) \o StrElems(order, k + 1)

\* f'Unused codes: {unused_codes}', the set iterated in the given order
UnusedNote(order) == <<"U","n","u","s","e","d"," ","c","o","d","e","s",":"," ","{">> \o StrElems(order, 1) \o <<"}">>

\* the orders a set of str can be iterated in (the order depends on the hash
\* seed of the run)
Orders(S) ==
    {o \in [1..Cardinality(S) -> S] : \A a, b \in 1..Cardinality(S) : a # b => o[a] # o[b]}

-----------------------------------------------------------------------------
(* The error context (util.py:73-89, core.py:367-371) *)

\* ErrorDict(inputtext)
ErrorDict(inputtext) ==
    [filename |-> inputtext, date |-> Today, edition_id |-> NoId,
     work_id |-> NoId, text |-> Null, error_note |-> Null]

\* ErrorDict.reset() without edition_id: the edition of the last insertion
\* stays in the error context
Reset_KeepEdition(e) ==
    [e EXCEPT !.work_id = NoId, !.text = Null, !.error_note = Null]

\* ErrorDict.reset()
Reset(e) ==
    [e EXCEPT !.edition_id = NoId, !.work_id = NoId, !.text = Null,
              !.error_note = Null]

-----------------------------------------------------------------------------
(* Classifying a record (core.py:399-446, 516-517, 636) *)

\* Branch with the test of the identifier fields before the tests of the
\* hidden records
Branch_IncompleteFirst(rec) ==
    IF <<"0">> \notin DOMAIN rec THEN "no_identifier"
    ELSE IF <<"1">> \notin DOMAIN rec /\ <<"0","1">> \notin DOMAIN rec THEN "incomplete"
    ELSE IF hidden_rgx_search(rec[<<"0">>]) THEN "hidden_identifier"
    ELSE IF <<"4">> \in DOMAIN rec /\ StartsWith(rec[<<"4">>], <<"x","x">>) THEN "hidden_4"
    ELSE IF <<"0","4">> \in DOMAIN rec /\ StartsWith(rec[<<"0","4">>], <<"x","x">>) THEN "hidden_04"
    ELSE IF Len(ed_id_rgx_findall(rec[<<"0">>])) > 0
            /\ Len(wrk_id_rgx_findall(rec[<<"0">>])) > 0 THEN "edition"
    ELSE IF Len(wrk_id_rgx_findall(rec[<<"0">>])) > 0 THEN "work"
    ELSE "invalid"

\* the branch of the loop body a collated record takes: the first test of the
\* if-chain that holds
Branch(rec) ==
    IF <<"0">> \notin DOMAIN rec THEN "no_identifier"
    ELSE IF hidden_rgx_search(rec[<<"0">>]) THEN "hidden_identifier"
    ELSE IF <<"4">> \in DOMAIN rec /\ StartsWith(rec[<<"4">>], <<"x","x">>) THEN "hidden_4"
    ELSE IF <<"0","4">> \in DOMAIN rec /\ StartsWith(rec[<<"0","4">>], <<"x","x">>) THEN "hidden_04"
    ELSE IF <<"1">> \notin DOMAIN rec /\ <<"0","1">> \notin DOMAIN rec THEN "incomplete"
    ELSE IF Len(ed_id_rgx_findall(rec[<<"0">>])) > 0
            /\ Len(wrk_id_rgx_findall(rec[<<"0">>])) > 0 THEN "edition"
    ELSE IF Len(wrk_id_rgx_findall(rec[<<"0">>])) > 0 THEN "work"
    ELSE "invalid"

-----------------------------------------------------------------------------
(* The edition path (core.py:447-514) *)

\* for code, field in table.items(): if code in rec: d[field] = rec[code]
\* (in this loop and the next ones, the dicts after one iteration are computed
\* before the next iteration starts: the test before the recursion always holds)
RECURSIVE Populate(_, _, _, _)
Populate(d, table, rec, k) ==
    IF k > Len(table) THEN d
    ELSE LET code == table[k][1]
             field == table[k][2]
             d1 == IF code \in DOMAIN rec THEN [d EXCEPT ![field] = rec[code]] ELSE d
         IN  IF DOMAIN d1 = DOMAIN d THEN Populate(d1, table, rec, k + 1) ELSE d1

\* "Hoover up any information stored in the wrong fields" (core.py:461-466):
\* [ed, unused] after the codes of WORK_CODES from the k-th on
RECURSIVE EditionSalvage(_, _, _, _)
EditionSalvage(ed, unused, rec, k) ==
    IF k > Len(WORK_CODES) THEN [ed |-> ed, unused |-> unused]
    ELSE LET code == WORK_CODES[k][1]
             field == WORK_CODES[k][2]
             hit == code \notin Codes(EDITION_CODES) /\ field \in DOMAIN ed
                    /\ code \in DOMAIN rec
             ed1 == IF hit /\ ed[field] = Null
                    THEN [ed EXCEPT ![field] = rec[code]] ELSE ed
             unused1 == IF hit /\ ed[field] # Null
                        THEN unused \cup {code} ELSE unused
         IN  IF DOMAIN ed1 = DOMAIN ed /\ unused \subseteq unused1
             THEN EditionSalvage(ed1, unused1, rec, k + 1)
             ELSE [ed |-> ed1, unused |-> unused1]

\* d[key] = val, key a new key or an old one
SetItem(d, key, val) ==
    [k \in DOMAIN d \cup {key} |-> IF k = key THEN val ELSE d[k]]

\* core.py:468-473: the identifiers of an edition
EditionIdentifiers(ed, work_identifier, ed_identifier) ==
    LET a == [ed EXCEPT !["work_identifier"] = work_identifier[1]]
    IN  IF a["ed_identifier"] = Null
        THEN [a EXCEPT !["ed_identifier"] = ed_identifier[1]]
        ELSE a

\* s[0:n]
Prefix(s, n) == Sub(s, 1, IF Len(s) < n THEN Len(s) ELSE n)

\* EditionCounter without the slice: the field is kept with its notes
EditionCounter_Whole(ed) == ed

\* core.py:475-477: the edition counter of an edition
EditionCounter(ed) ==
    IF ed["edition_counter"] # Null
    THEN [ed EXCEPT !["edition_counter"] = Prefix(ed["edition_counter"], 7)]
    ELSE ed

\* core.py:479-487: the titles of an edition
EditionTitles(ed) ==
    LET a == IF ed["long_title"] # Null /\ ed["short_title"] # Null
             THEN [ed EXCEPT !["long_title"] = ed["short_title"] \o ed["long_title"]]
             ELSE ed
        segs == title_rgx_split(a["short_title"])
    IN  IF a["short_title"] # Null /\ title_rgx_search(a["short_title"])
        THEN [a EXCEPT !["long_title"] = segs[1] \o segs[2],
                       !["short_title"] = segs[1]]
        ELSE a

\* the edition dict of a record on the edition path, and its unused codes
\* (core.py:448-487)
EditionOf(rec, work_identifier, ed_identifier, uuid) ==
    LET shell == SetItem(SetItem(FromKeys(EDITION_CODES), "uuid", uuid), "work_id", NoId)
        s == EditionSalvage(Populate(shell, EDITION_CODES, rec, 1), unused_codes, rec, 1)
    IN  [ed |-> EditionTitles(EditionCounter(
                    EditionIdentifiers(s.ed, work_identifier, ed_identifier))),
         unused |-> s.unused]

\* the row insert_edition writes for an edition dict
EditionRow(ed) == [c \in EditionColumns |-> ed[c]]

\* the row insert_work writes for a work dict
WorkRow(wk) == [c \in WorkColumns |-> wk[c]]

-----------------------------------------------------------------------------
(* Holdings (core.py:497-512, 578-596) *)

\* the rows insert_holdings writes for the holdings of an edition
HoldingRows(holdings, id) ==
    [k \in 1..Len(holdings) |->
        [edition_id |-> id, lib_name |-> holdings[k], lib_id |-> NoId]]

\* ExplodeHoldings with the "Junk holdings" error logged without its edition
ExplodeHoldings_NoRef(st, ed, id) ==
    LET holdings == holding_rgx_findall(ed["holdings"])
        e == [st.err EXCEPT !.text = ed["holdings"],
                            !.error_note = <<"J","u","n","k"," ","h","o","l","d","i","n","g","s">>]
    IN  IF ed["holdings"] = Null THEN st
        ELSE IF Len(holdings) = 0
        THEN [st EXCEPT !.err = e, !.mmf_error = Append(st.mmf_error, e)]
        ELSE [st EXCEPT !.mmf_holding = st.mmf_holding \o HoldingRows(holdings, id)]

\* the state of the tables and of the error context while a record is
\* processed: [err, mmf_error, mmf_holding]; exploding the holdings of the
\* edition dict ed, inserted under the key id
ExplodeHoldings(st, ed, id) ==
    LET holdings == holding_rgx_findall(ed["holdings"])
        e == [st.err EXCEPT !.text = ed["holdings"],
                            !.error_note = <<"J","u","n","k"," ","h","o","l","d","i","n","g","s">>,
                            !.edition_id = id]
    IN  IF ed["holdings"] = Null THEN st
        ELSE IF Len(holdings) = 0
        THEN [st EXCEPT !.err = e, !.mmf_error = Append(st.mmf_error, e)]
        ELSE [st EXCEPT !.mmf_holding = st.mmf_holding \o HoldingRows(holdings, id)]

-----------------------------------------------------------------------------
(* The work path (core.py:518-634) *)

\* "Copy relevant data to edition dict" (core.py:528-530)
CopyToEdition(wk, ed) ==
    [k \in DOMAIN ed |-> IF k \in DOMAIN wk THEN wk[k] ELSE ed[k]]

\* "Hoover up any remaining info" (core.py:533-540): [wk, ed, unused] after
\* the codes of EDITION_CODES from the k-th on
RECURSIVE WorkSalvage(_, _, _, _, _)
WorkSalvage(wk, ed, unused, rec, k) ==
    IF k > Len(EDITION_CODES) THEN [wk |-> wk, ed |-> ed, unused |-> unused]
    ELSE LET code == EDITION_CODES[k][1]
             field == EDITION_CODES[k][2]
             hit == code \notin Codes(WORK_CODES) /\ code \in DOMAIN rec
             wk1 == IF hit /\ field \in DOMAIN wk /\ wk[field] = Null
                    THEN [wk EXCEPT ![field] = rec[code]] ELSE wk
             free == field \in DOMAIN ed /\ ed[field] = Null
             ed1 == IF hit /\ free THEN [ed EXCEPT ![field] = rec[code]] ELSE ed
             unused1 == IF hit /\ ~free THEN unused \cup {code} ELSE unused
         IN  IF DOMAIN wk1 = DOMAIN wk /\ DOMAIN ed1 = DOMAIN ed
                /\ unused \subseteq unused1
             THEN WorkSalvage(wk1, ed1, unused1, rec, k + 1)
             ELSE [wk |-> wk1, ed |-> ed1, unused |-> unused1]

\* core.py:546-550: the identifiers and the edition counter of a princeps
WorkIdentifiers(p, work_identifier) ==
    [p EXCEPT !.wk["work_identifier"] = work_identifier[1],
              !.ed["work_identifier"] = work_identifier[1],
              !.ed["ed_identifier"] = work_identifier[1],
              !.ed["edition_counter"] = Prefix(work_identifier[1], 4) \o <<"0","0","0">>]

\* WorkTitles with the whole title, marker included, as the short title of
\* the edition
WorkTitles_Whole(p) ==
    LET title_parts == title_rgx_split(p.wk["title"])
    IN  IF p.wk["title"] # Null
        THEN [p EXCEPT !.wk["title"] = title_parts[1],
                       !.ed["long_title"] = Join(title_parts),
                       !.ed["short_title"] = p.wk["title"]]
        ELSE p

\* core.py:552-560: the titles of a princeps
WorkTitles(p) ==
    LET title_parts == title_rgx_split(p.wk["title"])
    IN  IF p.wk["title"] # Null
        THEN [p EXCEPT !.wk["title"] = title_parts[1],
                       !.ed["long_title"] = Join(title_parts),
                       !.ed["short_title"] = title_parts[1]]
        ELSE p

\* the work dict and the edition dict of a record on the work path, and its
\* unused codes (core.py:519-560); the edition has no work_id yet
WorkOf(rec, work_identifier, uuid1, uuid2) ==
    LET wk == Populate(FromKeys(WORK_CODES), WORK_CODES, rec, 1)
        ed == CopyToEdition(wk, FromKeys(EDITION_CODES))
        s == WorkSalvage(wk, ed, unused_codes, rec, 1)
        p == [wk |-> SetItem(s.wk, "uuid", uuid1),
              ed |-> SetItem(s.ed, "uuid", uuid2),
              unused |-> s.unused]
    IN  WorkTitles(WorkIdentifiers(p, work_identifier))

\* core.py:599-605: the rows of the contemporary references of a work
ContemporaryRows(wk, work_id) ==
    LET cr_list == Split(wk["contemporary_references"], <<" "," ">>)
    IN  IF wk["contemporary_references"] = Null THEN <<>>
        ELSE [k \in 1..Len(cr_list) |->
                [work_id |-> work_id, short_name |-> cr_list[k],
                 page_num |-> Null, ref_work |-> NoId, ref_type |-> 1]]

\* LaterRowsOf without the loop over the pages: one row, for the first page
LaterRowsOf_FirstPage(ref, work_id) ==
    LET ref_dict == [work_id |-> work_id, ref_type |-> 2, page_num |-> Null,
                     ref_work |-> NoId,
                     short_name |-> Strip(pages_rgx_sub(ref))]
        pages == pages_rgx_findall(ref)
    IN  IF Len(pages) > 0
        THEN <<[ref_dict EXCEPT !.page_num = pages[1]]>>
        ELSE <<ref_dict>>

\* core.py:612-629: the rows of one item of the later references
LaterRowsOf(ref, work_id) ==
    LET ref_dict == [work_id |-> work_id, ref_type |-> 2, page_num |-> Null,
                     ref_work |-> NoId,
                     short_name |-> Strip(pages_rgx_sub(ref))]
        pages == pages_rgx_findall(ref)
    IN  IF Len(pages) > 0
        THEN [k \in 1..Len(pages) |-> [ref_dict EXCEPT !.page_num = pages[k]]]
        ELSE <<ref_dict>>

\* the rows of the items of lr_list from the k-th on
RECURSIVE LaterRowsFrom(_, _, _)
LaterRowsFrom(lr_list, work_id, k) ==
    IF k > Len(lr_list) THEN <<>>
    ELSE LaterRowsOf(lr_list[k], work_id) \o LaterRowsFrom(lr_list, work_id, k + 1)

\* core.py:607-632: the rows of the later references of a work
LaterRows(wk, work_id) ==
    IF wk["later_references"] = Null THEN <<>>
    ELSE LaterRowsFrom(Split(wk["later_references"], <<" "," ">>), work_id, 1)

-----------------------------------------------------------------------------
(* The steps of import_records *)

\* the entry of the history for the record just processed: its branch, the
\* dicts built for it, and the sizes of the tables before it was processed;
\* the rows after those are the rows of this record
Entry(branch, wk, ed, unused) ==
    [raw |-> raw, pairs |-> pairs, record |-> record, branch |-> branch,
     wk |-> wk, ed |-> ed, unused |-> unused,
     works |-> Len(mmf_work), editions |-> Len(mmf_edition),
     holdings |-> Len(mmf_holding), refs |-> Len(mmf_ref),
     errs |-> Len(mmf_error), successes |-> successes, errors |-> errors]

\* core.py:290-301, 379-382: the file is read, cleaned and split; the error
\* context and the counters are initialised
ReadInput ==
    /\ pc = "start"
    /\ text' = SplitRecords(input)
    /\ err' = ErrorDict(Filename)
    /\ successes' = 0
    /\ errors' = 0
    /\ pc' = "loop"
    /\ UNCHANGED <<foo, calls, input, raw, pairs, record, unused_codes, edition_id, mmf_work,
                   mmf_edition, mmf_holding, mmf_ref, mmf_error, log>>

\* Extract with the record popped from the front of the list: text.pop(0)
Extract_FromFront ==
    /\ pc = "loop"
    /\ Len(text) > 0
    /\ LET r == text[1]
           ps == Tokenize(r)
       IN  /\ raw' = r
           /\ pairs' = ps
           /\ record' = Collate(ps)
    /\ text' = SubSeq(text, 2, Len(text))
    /\ err' = Reset(err)
    /\ unused_codes' = {}
    /\ pc' = "record"
    /\ UNCHANGED <<foo, calls, input, edition_id, successes, errors, mmf_work, mmf_edition,
                   mmf_holding, mmf_ref, mmf_error, log>>

\* core.py:385-397: the next record is popped from the end of the list and
\* extracted into a dict
Extract ==
    /\ pc = "loop"
    /\ Len(text) > 0
    /\ LET r == text[Len(text)]
           ps == Tokenize(r)
       IN  /\ raw' = r
           /\ pairs' = ps
           /\ record' = Collate(ps)
    /\ text' = SubSeq(text, 1, Len(text) - 1)
    /\ err' = Reset(err)
    /\ unused_codes' = {}
    /\ pc' = "record"
    /\ UNCHANGED <<foo, calls, input, edition_id, successes, errors, mmf_work, mmf_edition,
                   mmf_holding, mmf_ref, mmf_error, log>>

\* LogAndContinue without the call of _log_error: the record is dropped and
\* nothing is logged
LogAndContinue_Silent(branch, note, counted) ==
    /\ pc = "record"
    /\ Branch(record) = branch
    /\ err' = err
    /\ mmf_error' = mmf_error
    /\ errors' = IF counted THEN errors + 1 ELSE errors
    /\ log' = Append(log, Entry(branch, <<>>, <<>>, {}))
    /\ pc' = "loop"
    /\ UNCHANGED <<foo, calls, input, text, raw, pairs, record, unused_codes, edition_id,
                   successes, mmf_work, mmf_edition, mmf_holding, mmf_ref>>

\* LogAndContinue with the counter of errors incremented in every branch
LogAndContinue_Counted(branch, note, counted) ==
    /\ pc = "record"
    /\ Branch(record) = branch
    /\ err' = [err EXCEPT !.text = StrRecord(record, CollatedOrder(pairs)),
                          !.error_note = note]
    /\ mmf_error' = Append(mmf_error, err')
    /\ errors' = errors + 1
    /\ log' = Append(log, Entry(branch, <<>>, <<>>, {}))
    /\ pc' = "loop"
    /\ UNCHANGED <<foo, calls, input, text, raw, pairs, record, unused_codes, edition_id,
                   successes, mmf_work, mmf_edition, mmf_holding, mmf_ref>>

\* _log_error(text=str(record), error_note=note) and continue: the branches
\* that log and go on to the next record (core.py:400-440)
LogAndContinue(branch, note, counted) ==
    /\ pc = "record"
    /\ Branch(record) = branch
    /\ err' = [err EXCEPT !.text = StrRecord(record, CollatedOrder(pairs)),
                          !.error_note = note]
    /\ mmf_error' = Append(mmf_error, err')
    /\ errors' = IF counted THEN errors + 1 ELSE errors
    /\ log' = Append(log, Entry(branch, <<>>, <<>>, {}))
    /\ pc' = "loop"
    /\ UNCHANGED <<foo, calls, input, text, raw, pairs, record, unused_codes, edition_id,
                   successes, mmf_work, mmf_edition, mmf_holding, mmf_ref>>

\* core.py:400-408
NoIdentifier == LogAndContinue("no_identifier", <<"N","o"," ","i","d","e","n","t","i","f","i","e","r">>, TRUE)

\* core.py:410-416
HiddenIdentifier == LogAndContinue("hidden_identifier", <<"H","i","d","d","e","n"," ","o","r"," ","d","e","l","e","t","e","d">>, FALSE)

\* core.py:418-424
HiddenTranslation4 == LogAndContinue("hidden_4", <<"H","i","d","d","e","n"," ","o","r"," ","d","e","l","e","t","e","d">>, FALSE)

\* core.py:426-432
HiddenTranslation04 == LogAndContinue("hidden_04", <<"H","i","d","d","e","n"," ","o","r"," ","d","e","l","e","t","e","d">>, FALSE)

\* core.py:434-440
IncompleteIdentifiers == LogAndContinue("incomplete", <<"I","n","c","o","m","p","l","e","t","e"," ","i","d","e","n","t","i","f","i","e","r","s">>, FALSE)

\* core.py:643-649: the unused codes of the record are logged; st is
\* [err, mmf_error, mmf_holding], order the order the set is iterated in
LogUnused(st, unused, id, order, n) ==
    LET e == [st.err EXCEPT !.edition_id = id,
                            !.text = StrRecord(record, CollatedOrder(pairs)),
                            !.error_note = UnusedNote(order)]
    IN  IF Cardinality(unused) > 0
        THEN [err |-> e, mmf_error |-> Append(st.mmf_error, e), errors |-> n + 1]
        ELSE [err |-> st.err, mmf_error |-> st.mmf_error, errors |-> n]

\* core.py:446-514, 643-651: the record is an edition
EditionPath ==
    /\ pc = "record"
    /\ Branch(record) = "edition"
    /\ LET r == EditionOf(record, wrk_id_rgx_findall(record[<<"0">>]),
                          ed_id_rgx_findall(record[<<"0">>]),
                          <<"uuid", Len(mmf_work) + Len(mmf_edition) + 1>>)
           id == Len(mmf_edition) + 1
           st == ExplodeHoldings([err |-> err, mmf_error |-> mmf_error,
                                  mmf_holding |-> mmf_holding], r.ed, id)
       IN  \E order \in Orders(r.unused) :
             LET fin == LogUnused(st, r.unused, id, order, errors)
             IN  /\ mmf_edition' = Append(mmf_edition, EditionRow(r.ed))
                 /\ edition_id' = id
                 /\ mmf_holding' = st.mmf_holding
                 /\ unused_codes' = r.unused
                 /\ err' = fin.err
                 /\ mmf_error' = fin.mmf_error
                 /\ errors' = fin.errors
                 /\ log' = Append(log, Entry("edition", <<>>, r.ed, r.unused))
    /\ successes' = successes + 1
    /\ pc' = "loop"
    /\ UNCHANGED <<foo, calls, input, text, raw, pairs, record, mmf_work, mmf_ref>>

\* core.py:517-634, 643-651: the record is a princeps
WorkPath ==
    /\ pc = "record"
    /\ Branch(record) = "work"
    /\ LET n == Len(mmf_work) + Len(mmf_edition)
           p == WorkOf(record, wrk_id_rgx_findall(record[<<"0">>]),
                       <<"uuid", n + 1>>, <<"uuid", n + 2>>)
           work_id == Len(mmf_work) + 1
           ed == SetItem(p.ed, "work_id", work_id)
           id == Len(mmf_edition) + 1
           st == ExplodeHoldings([err |-> err, mmf_error |-> mmf_error,
                                  mmf_holding |-> mmf_holding], ed, id)
       IN  \E order \in Orders(p.unused) :
             LET fin == LogUnused(st, p.unused, id, order, errors)
             IN  /\ mmf_work' = Append(mmf_work, WorkRow(p.wk))
                 /\ mmf_edition' = Append(mmf_edition, EditionRow(ed))
                 /\ edition_id' = id
                 /\ mmf_holding' = st.mmf_holding
                 /\ mmf_ref' = mmf_ref \o ContemporaryRows(p.wk, work_id)
                                       \o LaterRows(p.wk, work_id)
                 /\ unused_codes' = p.unused
                 /\ err' = fin.err
                 /\ mmf_error' = fin.mmf_error
                 /\ errors' = fin.errors
                 /\ log' = Append(log, Entry("work", p.wk, ed, p.unused))
    /\ successes' = successes + 1
    /\ pc' = "loop"
    /\ UNCHANGED <<foo, calls, input, text, raw, pairs, record>>

\* InvalidIdentifier with the note of the branch before it
InvalidIdentifier_WrongNote ==
    /\ pc = "record"
    /\ Branch(record) = "invalid"
    /\ LET e == [err EXCEPT !.text = StrRecord(record, CollatedOrder(pairs)),
                            !.error_note = <<"I","n","c","o","m","p","l","e","t","e"," ","i","d","e","n","t","i","f","i","e","r","s">>]
           st == [err |-> e, mmf_error |-> Append(mmf_error, e),
                  mmf_holding |-> mmf_holding]
       IN  \E order \in Orders(unused_codes) :
             LET fin == LogUnused(st, unused_codes, edition_id, order, errors + 1)
             IN  /\ err' = fin.err
                 /\ mmf_error' = fin.mmf_error
                 /\ errors' = fin.errors
    /\ log' = Append(log, Entry("invalid", <<>>, <<>>, unused_codes))
    /\ pc' = "loop"
    /\ UNCHANGED <<foo, calls, input, text, raw, pairs, record, unused_codes, edition_id,
                   successes, mmf_work, mmf_edition, mmf_holding, mmf_ref>>

\* core.py:636-651: the identifier has no known signature
InvalidIdentifier ==
    /\ pc = "record"
    /\ Branch(record) = "invalid"
    /\ LET e == [err EXCEPT !.text = StrRecord(record, CollatedOrder(pairs)),
                            !.error_note = <<"I","n","v","a","l","i","d"," ","i","d","e","n","t","i","f","i","e","r">>]
           st == [err |-> e, mmf_error |-> Append(mmf_error, e),
                  mmf_holding |-> mmf_holding]
       IN  \E order \in Orders(unused_codes) :
             LET fin == LogUnused(st, unused_codes, edition_id, order, errors + 1)
             IN  /\ err' = fin.err
                 /\ mmf_error' = fin.mmf_error
                 /\ errors' = fin.errors
    /\ log' = Append(log, Entry("invalid", <<>>, <<>>, unused_codes))
    /\ pc' = "loop"
    /\ UNCHANGED <<foo, calls, input, text, raw, pairs, record, unused_codes, edition_id,
                   successes, mmf_work, mmf_edition, mmf_holding, mmf_ref>>

\* core.py:385, 653-665: the list is empty, the loop ends
Finish ==
    /\ pc = "loop"
    /\ Len(text) = 0
    /\ pc' = "done"
    /\ UNCHANGED <<foo, calls, input, text, raw, pairs, record, err, unused_codes, edition_id,
                   successes, errors, mmf_work, mmf_edition, mmf_holding, mmf_ref,
                   mmf_error, log>>

-----------------------------------------------------------------------------
(* The input files the model reads *)

\* the most fields a generated record holds after its identifier fields
MaxFields == 2

\* the most records a batch of sample records holds
MaxRecords == 2

\* the identifier fields of a record: none, a princeps, an edition, a hidden
\* record, a record without work or edition identifier, an unknown signature
Headers == <<
    <<>>,
    <<<<"%","1",":","0","2","F","R",".","A","B","C",".","a","b","c">>>>,
    <<<<"%","0",":","0","2","F","R",".","A","B","C",".","a","b","c">>>>,
    <<<<"%","0",":","0","2","F","R",".","A","B","C",".","a","b","c">>, <<"%","1",":","0","2","F","R",".","A","B","C",".","a","b","c">>>>,
    <<<<"%","0",":","0","2","F","R",".","A","B","C",".","a","b","c"," ","7","5","G","B",".","D","E","F",".","a","0","1">>, <<"%","1",":","7","5","G","B",".","D","E","F",".","a","0","1">>>>,
    <<<<"%","0",":","0","2","F","R",".","A","B","C",".","a","b","c"," ","7","5","G","B",".","D","E","F",".","a","0","1">>, <<"%","0","1",":","0","0","0","1">>>>,
    <<<<"%","0",":","0","2","F","R",".","A","B","C",".","x","y","z">>, <<"%","1",":","0","2","F","R",".","A","B","C",".","x","y","z">>>>,
    <<<<"%","0",":","0","2","F","R",".","A","B","C",".","x","y","z">>>>,
    <<<<"%","0",":","0","2","F","R",".","A","B","C",".","a","b","x"," ","7","5","G","B",".","D","E","F",".","a","0","1">>, <<"%","1",":","7","5","G","B",".","D","E","F",".","a","0","1">>>>,
    <<<<"%","0",":","Q","Q","Q","Q","Q","Q","Q","Q","Q","Q","Q","Q"," ","0","2","F","R",".","A","B","C",".","a","b","c">>, <<"%","1",":","0","2","F","R",".","A","B","C",".","a","b","c">>>>,
    <<<<"%","0",":","1","2"," ","e","n","t","e","r","e","d">>, <<"%","1",":","1","2">>>> >>

\* the other fields a generated record is made of
Fields == <<
    <<"%","5",":","L","e"," ","T","i","t","r","e","Z","1"," ","S","u","i","t","e">>,
    <<"%","5",":","U","n"," ","{","t","{","Z","3">>,
    <<"%","7",":","P","a","r","i","s","-","B","N","F",","," ","L","y","o","n","-","B","M">>,
    <<"%","7",":","s","a","n","s"," ","c","o","t","e">>,
    <<"%","2","5",":","P","a","r","i","s","-","B","N","F">>,
    <<"%","8",":","G","r","i","m","m"," "," ","C","L"," ","1","7","7","5">>,
    <<"%","9",":","S","m","i","t","h"," ","1","2"," ","4","5"," "," ","J","o","n","e","s"," "," ","M","M","F","7","0"," ","3">>,
    <<"%","2","1",":","D","e","b","u","t","Z","2"," ","f","i","n">>,
    <<"%","2","1",":","A","u","t","r","e"," ","d","e","b","u","t">>,
    <<"%","2","2",":"," ","e","t"," ","r","e","s","t","e">>,
    <<"%","2","0",":","1","2","3","4","5","6","7"," ","n","o","t","e">>,
    <<"%","4",":","x","x","t","r","a","d">> >>

\* sample records for the batches of several records
Samples == <<
    <<"0",":","0","2","F","R",".","A","B","C",".","x","y","z","\n","5",":","L","e"," ","T","i","t","r","e","Z","1"," ","S","u","i","t","e","\n","7",":","P","a","r","i","s","-","B","N","F">>,
    <<"%","0",":","0","2","F","R",".","A","B","C",".","a","b","c","\n","%","1",":","0","2","F","R",".","A","B","C",".","a","b","c","\n","%","5",":","L","e"," ","T","i","t","r","e","Z","1"," ","S","u","i","t","e","\n","%","7",":","P","a","r","i","s","-","B","N","F">>,
    <<"%","0",":","0","2","F","R",".","A","B","C",".","a","b","c"," ","7","5","G","B",".","D","E","F",".","a","0","1","\n","%","1",":","7","5","G","B",".","D","E","F",".","a","0","1","\n","%","2","1",":","D","e","b","u","t","\n","%","2","5",":","r","i","e","n","\n","%","2",":","A","n","o","n","\n","%","0","2",":","A","u","t","e","u","r","\n","%","4",":","d","e","\n","%","0","4",":","t","r","a","d",".","\n","d","e"," ","l","'","a","n","g","l","a","i","s">>,
    <<"%","0",":","7","5","G","B",".","D","E","F",".","a","0","1","\n","%","1",":","7","5","G","B",".","D","E","F",".","a","0","1","\n","%","5",":","T","i","t","r","e","\n","%","6",":","<","6",">","$","\n","%","7",":","P","a","r","i","s","-","B","N","F",","," ","L","y","o","n","-","B","M","\n","%","9",":","S","m","i","t","h","\n","%","0","1","1",":","0","3","\n","%","9","9",":","d","i","v","e","r","s">>,
    <<"%","0",":","s",".","d",".",".","A"," ","C",".","a","0","1","\n","%","0","1",":","1","\n","%","0","4",":","x","x","\n","%","5",":","T","i","t","r","e","$">>,
    <<"%","2",":","A","n","o","n">>,
    <<"%","0",":","1","7","7","7","\n","%","1",":","1","7","7","7">>,
    <<"%","0",":","0","2","F","R",".","A","B","C",".","a","b","x"," ","7","5","G","B",".","D","E","F",".","a","0","1","\n","%","1",":","7","5","G","B",".","D","E","F",".","a","0","1","\n","%","8",":","G","r","i","m","m">> >>

\* the lines joined by newlines
RECURSIVE JoinLines(_)
JoinLines(lines) ==
    IF lines = <<>> THEN <<>>
    ELSE IF Len(lines) = 1 THEN lines[1]
    ELSE lines[1] \o <<"\n">> \o JoinLines(Tail(lines))

\* the choices of up to MaxFields of the Fields, in the order of Fields
Choices ==
    UNION {{c \in [1..n -> 1..Len(Fields)] : \A a, b \in 1..n : a < b => c[a] < c[b]} :
             n \in 0..MaxFields}

\* a file of one generated record: identifier fields and some other fields,
\* and the terminator
GeneratedInputs ==
    {JoinLines(Headers[h] \o [k \in 1..Len(c) |-> Fields[c[k]]]) \o Terminator :
        h \in 1..Len(Headers), c \in Choices}

\* the records of batch b, each followed by the terminator
RECURSIVE Terminated(_)
Terminated(b) ==
    IF b = <<>> THEN <<>> ELSE Samples[Head(b)] \o Terminator \o Terminated(Tail(b))

\* the files of up to MaxRecords sample records; without the last terminator
\* as well
BatchInputs ==
    LET batches == UNION {[1..n -> 1..Len(Samples)] : n \in 0..MaxRecords}
    IN  {Terminated(b) : b \in batches}
        \cup {Sub(Terminated(b), 1, Len(Terminated(b)) - Len(Terminator)) :
                b \in batches \ {<<>>}}

Inputs == GeneratedInputs \cup BatchInputs

-----------------------------------------------------------------------------
(* The specification *)

Init ==
    /\ pc = "start"
    /\ input \in Inputs
    /\ text = <<>>
    /\ raw = <<>>
    /\ pairs = <<>>
    /\ record = <<>>
    /\ err = ErrorDict(Filename)
    /\ unused_codes = {}
    /\ edition_id = NoId
    /\ successes = 0
    /\ errors = 0
    /\ mmf_work = <<>>
    /\ mmf_edition = <<>>
    /\ mmf_holding = <<>>
    /\ mmf_ref = <<>>
    /\ mmf_error = <<>>
    /\ log = <<>>
    /\ foo = <<>>
    /\ calls = <<>>

Next ==
    \/ ReadInput
    \/ Extract
    \/ NoIdentifier
    \/ HiddenIdentifier
    \/ HiddenTranslation4
    \/ HiddenTranslation04
    \/ IncompleteIdentifiers
    \/ EditionPath
    \/ WorkPath
    \/ InvalidIdentifier
    \/ Finish

Spec == Init /\ [][Next]_vars

-----------------------------------------------------------------------------
(* util.py: DupeDict *)

\* a key as the caller gives it: a str
StrKey(s) == [kind |-> "str", str |-> s, num |-> 0]

\* a key as the caller gives it: an int
IntKey(n) == [kind |-> "int", str |-> <<>>, num |-> n]

\* str(n), n an int that is not negative
RECURSIVE StrInt(_)
StrInt(n) ==
    IF n < 10 THEN <<<<"0","1","2","3","4","5","6","7","8","9">>[n + 1]>>
    ELSE StrInt(n \div 10) \o <<<<"0","1","2","3","4","5","6","7","8","9">>[(n % 10) + 1]>>

\* str(key)
Str(key) == IF key.kind = "int" THEN StrInt(key.num) ELSE key.str

RECURSIVE DupeDict_setitem(_, _, _)
\* dict.__setitem__: the value is stored under str(key), whatever is there
DupeDict_setitem_Plain(self, key, value) == SetItem(self, Str(key), value)

\* util.py:20-27: DupeDict.__setitem__; i is 0 at every entry, so that the key
\* tried next is always key + '1'
DupeDict_setitem(self, key, value) ==
    LET k == Str(key)
        i == 0
    IN  IF k \in DOMAIN self
        THEN DupeDict_setitem(self, StrKey(k \o StrInt(i + 1)), value)
        ELSE SetItem(self, k, value)

\* for key, value in items: self.__setitem__(key, value)
RECURSIVE DupeDict_setitems(_, _)
DupeDict_setitems(self, items) ==
    IF items = <<>> THEN self
    ELSE DupeDict_setitems(DupeDict_setitem(self, items[1][1], items[1][2]), Tail(items))

\* util.py:29-37: DupeDict.update(*args, **kwargs), kwargs in the order of
\* the call; with more than one positional argument TypeError is raised and
\* the dict is as it was
DupeDict_update(self, args, kwargs) ==
    IF Len(args) > 1 THEN self
    ELSE DupeDict_setitems(IF Len(args) = 1 THEN DupeDict_setitems(self, args[1]) ELSE self,
                           kwargs)

-----------------------------------------------------------------------------
(* The specification of a DupeDict under the calls of a client *)

\* the calls made on a DupeDict
MaxCalls == 2

\* the items of one call of DupeDict.update
MaxItems == 2

\* the keys of the calls: str and int keys that collide once converted
DupeKeys == {StrKey(<<"b","a","r">>), StrKey(<<"b","a","r","1">>), StrKey(<<"1">>), IntKey(1)}

\* the keyword arguments of the calls
DupeKeywords == {StrKey(<<"b","a","r">>), StrKey(<<"b","a","r","1">>)}

\* the values of the calls
DupeValues == {1, 2}

\* the lists of (key, value) pairs given to update
ItemLists ==
    UNION {[1..n -> {<<key, value>> : key \in DupeKeys, value \in DupeValues}]
             : n \in 0..MaxItems}

\* the keyword arguments of a call, in the order of the call
KeywordLists ==
    {kw \in UNION {[1..n -> {<<key, value>> : key \in DupeKeywords, value \in DupeValues}]
                     : n \in 0..Min({MaxItems, Cardinality(DupeKeywords)})} :
        \A a, b \in 1..Len(kw) : a # b => kw[a][1] # kw[b][1]}

\* the variables of import_records, which no call of a DupeDict changes
import_vars == <<pc, input, text, raw, pairs, record, err, unused_codes, edition_id,
                 successes, errors, mmf_work, mmf_edition, mmf_holding, mmf_ref,
                 mmf_error, log>>

\* the calls made so far are fewer than MaxCalls
MoreCalls == Len(calls) < MaxCalls

\* foo[key] = value
SetItemCall ==
    /\ MoreCalls
    /\ \E key \in DupeKeys, value \in DupeValues :
          /\ foo' = DupeDict_setitem(foo, key, value)
          /\ calls' = Append(calls, [op |-> "setitem", raised |-> FALSE,
                                     items |-> <<<<key, value>>>>])
    /\ UNCHANGED import_vars

\* foo.update(**kwargs) or foo.update(items, **kwargs)
UpdateCall ==
    /\ MoreCalls
    /\ \E args \in {<<>>} \cup {<<items>> : items \in ItemLists}, kwargs \in KeywordLists :
          /\ Len(args) + Len(kwargs) > 0
          /\ (IF args = <<>> THEN 0 ELSE Len(args[1])) + Len(kwargs) <= MaxItems
          /\ foo' = DupeDict_update(foo, args, kwargs)
          /\ calls' = Append(calls, [op |-> "update", raised |-> FALSE,
                                     items |-> (IF args = <<>> THEN <<>> ELSE args[1])
                                                 \o kwargs])
    /\ UNCHANGED import_vars

\* foo.update(items, more, **kwargs): TypeError
UpdateTypeError ==
    /\ MoreCalls
    /\ \E items \in ItemLists, more \in ItemLists, kwargs \in KeywordLists :
          /\ Len(items) + Len(more) + Len(kwargs) <= MaxItems
          /\ foo' = DupeDict_update(foo, <<items, more>>, kwargs)
          /\ calls' = Append(calls, [op |-> "update", raised |-> TRUE,
                                     items |-> <<>>])
    /\ UNCHANGED import_vars

\* foo = DupeDict(), and import_records is not running
DupeInit ==
    /\ foo = <<>>
    /\ calls = <<>>
    /\ pc = "start"
    /\ input = <<>>
    /\ text = <<>>
    /\ raw = <<>>
    /\ pairs = <<>>
    /\ record = <<>>
    /\ err = ErrorDict(Filename)
    /\ unused_codes = {}
    /\ edition_id = NoId
    /\ successes = 0
    /\ errors = 0
    /\ mmf_work = <<>>
    /\ mmf_edition = <<>>
    /\ mmf_holding = <<>>
    /\ mmf_ref = <<>>
    /\ mmf_error = <<>>
    /\ log = <<>>

DupeNext ==
    \/ SetItemCall
    \/ UpdateCall
    \/ UpdateTypeError

DupeSpec == DupeInit /\ [][DupeNext]_vars

-----------------------------------------------------------------------------
(* What each record produced, read from the tables and the history *)

\* the records processed so far, in processing order
Processed == 1..Len(log)

\* the size a table had after the k-th record was processed
WorksAfter(k) == IF k < Len(log) THEN log[k + 1].works ELSE Len(mmf_work)

EditionsAfter(k) == IF k < Len(log) THEN log[k + 1].editions ELSE Len(mmf_edition)

HoldingsAfter(k) == IF k < Len(log) THEN log[k + 1].holdings ELSE Len(mmf_holding)

RefsAfter(k) == IF k < Len(log) THEN log[k + 1].refs ELSE Len(mmf_ref)

ErrsAfter(k) == IF k < Len(log) THEN log[k + 1].errs ELSE Len(mmf_error)

SuccessesAfter(k) == IF k < Len(log) THEN log[k + 1].successes ELSE successes

ErrorsAfter(k) == IF k < Len(log) THEN log[k + 1].errors ELSE errors

\* the rows the k-th record inserted
WorksOf(k) == SubSeq(mmf_work, log[k].works + 1, WorksAfter(k))

EditionsOf(k) == SubSeq(mmf_edition, log[k].editions + 1, EditionsAfter(k))

HoldingsOf(k) == SubSeq(mmf_holding, log[k].holdings + 1, HoldingsAfter(k))

RefsOf(k) == SubSeq(mmf_ref, log[k].refs + 1, RefsAfter(k))

ErrsOf(k) == SubSeq(mmf_error, log[k].errs + 1, ErrsAfter(k))

\* the error rows of the k-th record with a given note
ErrsNoted(k, note) == SelectSeq(ErrsOf(k), LAMBDA e : e.error_note = note)

\* the error rows of the k-th record whose note starts with a given prefix
ErrsPrefixed(k, prefix) ==
    SelectSeq(ErrsOf(k), LAMBDA e : StartsWith(e.error_note, prefix))

\* the k-th record produced no Work, Edition, Holding or Reference
NoEntityOf(k) ==
    /\ Len(WorksOf(k)) = 0
    /\ Len(EditionsOf(k)) = 0
    /\ Len(HoldingsOf(k)) = 0
    /\ Len(RefsOf(k)) = 0

\* the k-th record met the hidden heuristic: its identifier matches the
\* pattern, or its translation field starts with xx
HiddenRecord(k) ==
    LET rec == log[k].record
    IN  /\ <<"0">> \in DOMAIN rec
        /\ \/ hidden_rgx_search(rec[<<"0">>])
           \/ <<"4">> \in DOMAIN rec /\ StartsWith(rec[<<"4">>], <<"x","x">>)
           \/ <<"0","4">> \in DOMAIN rec /\ StartsWith(rec[<<"0","4">>], <<"x","x">>)

\* the notes of the branches that abort a record that is not hidden
NoSuccessNotes == {<<"N","o"," ","i","d","e","n","t","i","f","i","e","r">>, <<"I","n","c","o","m","p","l","e","t","e"," ","i","d","e","n","t","i","f","i","e","r","s">>, <<"I","n","v","a","l","i","d"," ","i","d","e","n","t","i","f","i","e","r">>}

\* the number of elements of a sequence that satisfy a test
Count(seq, Test(_)) == Len(SelectSeq(seq, Test))

-----------------------------------------------------------------------------
(* C1 *)

\* the outcome classes of C1 as the claim states them
C1_ClassA(k) == Len(WorksOf(k)) = 1 /\ Len(EditionsOf(k)) = 1

C1_ClassB(k) == Len(WorksOf(k)) = 0 /\ Len(EditionsOf(k)) = 1

C1_ClassC(k) == HiddenRecord(k) /\ NoEntityOf(k) /\ Len(ErrsOf(k)) = 0

C1_ClassD(k) == Len(WorksOf(k)) = 0 /\ Len(EditionsOf(k)) = 0 /\ Len(ErrsOf(k)) >= 1

\* the number of records processed so far that satisfy a test
Records(Test(_)) == Cardinality({k \in Processed : Test(k)})

\* the error rows of records that produced no entity: the rows with a "no
\* success" note
C1_NoSuccessRows ==
    Count(mmf_error, LAMBDA e :
        \E k \in Processed :
            /\ \E j \in 1..Len(ErrsOf(k)) : ErrsOf(k)[j] = e
            /\ Len(EditionsOf(k)) = 0)

\* C1 as claimed: every record is in exactly one of the classes (a) one Work
\* and one Edition, (b) one Edition, (c) hidden with nothing produced, (d) no
\* entity and one or more ErrorRecords; and, once the batch is done, the records
\* with an entity plus the ErrorRecords of the records without one plus the
\* hidden records are as many as the raw records.
C1_AsClaimed ==
    /\ \A k \in Processed :
         Cardinality({c \in 1..4 :
            \/ c = 1 /\ C1_ClassA(k)
            \/ c = 2 /\ C1_ClassB(k)
            \/ c = 3 /\ C1_ClassC(k)
            \/ c = 4 /\ C1_ClassD(k)}) = 1
    /\ pc = "done" =>
         Records(LAMBDA k : Len(EditionsOf(k)) = 1)
           + C1_NoSuccessRows
           + Records(HiddenRecord)
         = Len(SplitRecords(input))

\* the class of a hidden record as the code has it: no entity, and exactly one
\* ErrorRecord, noted "Hidden or deleted"
C1_ClassHidden(k) ==
    /\ HiddenRecord(k)
    /\ NoEntityOf(k)
    /\ Len(ErrsOf(k)) = 1
    /\ ErrsOf(k)[1].error_note = <<"H","i","d","d","e","n"," ","o","r"," ","d","e","l","e","t","e","d">>

\* the class of a record that is not hidden and is aborted: no entity, and
\* exactly one ErrorRecord, with one of the three "no success" notes
C1_ClassAborted(k) ==
    /\ ~HiddenRecord(k)
    /\ NoEntityOf(k)
    /\ Len(ErrsOf(k)) = 1
    /\ ErrsOf(k)[1].error_note \in NoSuccessNotes

\* C1, amended: every record processed is in exactly one of the classes (a)
\* one Work and one Edition, (b) one Edition and no Work, (c) hidden: no entity
\* and exactly one ErrorRecord noted "Hidden or deleted", (d) not hidden: no
\* entity and exactly one ErrorRecord noted "No identifier", "Incomplete
\* identifiers" or "Invalid identifier".  So the records with an entity, plus
\* the ErrorRecords with one of these three notes, plus the hidden records are
\* as many as the records processed, and once the batch is done as many as the
\* raw records.  ErrorRecords noted "Unused codes", "Junk holdings" and "Hidden
\* or deleted" are not counted.
C1_OutcomeClasses ==
    /\ \A k \in Processed :
         Cardinality({c \in 1..4 :
            \/ c = 1 /\ C1_ClassA(k)
            \/ c = 2 /\ C1_ClassB(k)
            \/ c = 3 /\ C1_ClassHidden(k)
            \/ c = 4 /\ C1_ClassAborted(k)}) = 1
    /\ Records(LAMBDA k : Len(EditionsOf(k)) = 1)
         + Count(mmf_error, LAMBDA e : e.error_note \in NoSuccessNotes)
         + Records(HiddenRecord)
       = Len(log)
    /\ pc = "done" => Len(log) = Len(SplitRecords(input))

\* a finished batch with a record of each class: a princeps and a hidden
\* record, and the empty record after the last terminator
C1_Witness ==
    /\ pc = "done"
    /\ \E k \in Processed : C1_ClassA(k)
    /\ \E k \in Processed : C1_ClassHidden(k)
    /\ \E k \in Processed : C1_ClassAborted(k)

-----------------------------------------------------------------------------
(* C2 *)

\* C2 as claimed: collation never loses a field.  Every value of the tokenized
\* pairs of a record that is no null entry is retrievable, stripped, under some
\* key of the collated record the classifier reads.
C2_NoFieldLost ==
    pc = "record" =>
        \A j \in 1..Len(pairs) :
            ~ne_match(pairs[j][2]) =>
                \E key \in DOMAIN record : record[key] = Strip(pairs[j][2])

-----------------------------------------------------------------------------
(* C3 *)

\* C3 as claimed: a hidden record produces nothing, no ErrorRecord either, and
\* increments neither counter
C3_AsClaimed ==
    \A k \in Processed :
        HiddenRecord(k) =>
            /\ NoEntityOf(k)
            /\ Len(ErrsOf(k)) = 0
            /\ SuccessesAfter(k) = log[k].successes
            /\ ErrorsAfter(k) = log[k].errors

\* C3, amended: a record classified Hidden (its identifier matches the hidden
\* heuristic, or its translation field starts with the suppression prefix)
\* produces no Work, no Edition, no Holding and no Reference, and increments
\* neither the successes counter nor the errors counter; it produces exactly
\* one ErrorRecord, noted "Hidden or deleted", whose text is the record and
\* which references no edition and no work.
C3_HiddenLogged ==
    \A k \in Processed :
        HiddenRecord(k) =>
            /\ NoEntityOf(k)
            /\ Len(ErrsOf(k)) = 1
            /\ ErrsOf(k)[1].error_note = <<"H","i","d","d","e","n"," ","o","r"," ","d","e","l","e","t","e","d">>
            /\ ErrsOf(k)[1].text = StrRecord(log[k].record, CollatedOrder(log[k].pairs))
            /\ ErrsOf(k)[1].edition_id = NoId
            /\ ErrsOf(k)[1].work_id = NoId
            /\ SuccessesAfter(k) = log[k].successes
            /\ ErrorsAfter(k) = log[k].errors

\* a record hidden by its identifier and a record hidden by its translation
\* field have been processed
C3_Witness ==
    /\ \E k \in Processed : HiddenRecord(k) /\ hidden_rgx_search(log[k].record[<<"0">>])
    /\ \E k \in Processed : HiddenRecord(k) /\ ~hidden_rgx_search(log[k].record[<<"0">>])

-----------------------------------------------------------------------------
(* C4 *)

\* the tests of the decision list of C4 on a collated record, in its order
C4_Step(rec, i) ==
    LET has == <<"0">> \in DOMAIN rec
        work == has /\ Len(wrk_id_rgx_findall(rec[<<"0">>])) > 0
        edition == has /\ Len(ed_id_rgx_findall(rec[<<"0">>])) > 0
    IN  CASE i = 1 -> ~has
          [] i = 2 -> has /\ hidden_rgx_search(rec[<<"0">>])
          [] i = 3 -> \E t \in {<<"4">>, <<"0","4">>} :
                         t \in DOMAIN rec /\ StartsWith(rec[t], <<"x","x">>)
          [] i = 4 -> <<"1">> \notin DOMAIN rec /\ <<"0","1">> \notin DOMAIN rec
          [] i = 5 -> work /\ edition
          [] i = 6 -> work
          [] i = 7 -> TRUE

\* the classes of the decision list, step by step
C4_Classes ==
    <<"No identifier", "Hidden", "Hidden", "Incomplete identifiers", "Edition",
      "Work", "Invalid identifier">>

\* the class the decision list gives a record: that of the first step that holds
C4_Decided(rec) == C4_Classes[Min({i \in 1..7 : C4_Step(rec, i)})]

\* the class a processed record was given, read from what it produced
C4_Observed(k) ==
    IF Len(EditionsOf(k)) = 1 /\ Len(WorksOf(k)) = 1 THEN "Work"
    ELSE IF Len(EditionsOf(k)) = 1 /\ Len(WorksOf(k)) = 0 THEN "Edition"
    ELSE IF Len(ErrsNoted(k, <<"H","i","d","d","e","n"," ","o","r"," ","d","e","l","e","t","e","d">>)) > 0 THEN "Hidden"
    ELSE IF Len(ErrsNoted(k, <<"N","o"," ","i","d","e","n","t","i","f","i","e","r">>)) > 0 THEN "No identifier"
    ELSE IF Len(ErrsNoted(k, <<"I","n","c","o","m","p","l","e","t","e"," ","i","d","e","n","t","i","f","i","e","r","s">>)) > 0 THEN "Incomplete identifiers"
    ELSE IF Len(ErrsNoted(k, <<"I","n","v","a","l","i","d"," ","i","d","e","n","t","i","f","i","e","r">>)) > 0 THEN "Invalid identifier"
    ELSE "none"

\* C4: every record is given the class of the first step of the decision list
\* that holds of it: (1) no full identifier: "No identifier"; (2) identifier
\* matches the hidden heuristic: Hidden; (3) translation starts with xx:
\* Hidden; (4) neither work identifier nor edition identifier field:
\* "Incomplete identifiers"; (5) work and edition signature: Edition; (6) work
\* signature: Work; (7) otherwise "Invalid identifier".
C4_DecisionList ==
    \A k \in Processed : C4_Observed(k) = C4_Decided(log[k].record)

\* hidden records have been processed whose later steps would have decided
\* otherwise: one with a dual-signature identifier, one without the identifier
\* fields of step 4
C4_Witness ==
    /\ \E k \in Processed :
          /\ C4_Observed(k) = "Hidden"
          /\ C4_Step(log[k].record, 2)
          /\ C4_Step(log[k].record, 5)
    /\ \E k \in Processed :
          /\ C4_Observed(k) = "Hidden"
          /\ C4_Step(log[k].record, 2)
          /\ C4_Step(log[k].record, 4)

-----------------------------------------------------------------------------
(* C5 *)

\* the steps of the decision list that abort a record with an error
C5_Aborting == {1, 4, 7}

\* C5: a record aborted for a missing full identifier, for missing work and
\* edition identifier fields, or for an identifier of no signature produces
\* exactly one ErrorRecord, with the note of its branch, and no Work, Edition,
\* Holding or Reference; and a record with no field 0 and no field 1 produces
\* exactly one ErrorRecord, noted "No identifier", and no entity.
C5_AbortsLogOnce ==
    \A k \in Processed :
        LET rec == log[k].record
            i == Min({j \in 1..7 : C4_Step(rec, j)})
        IN  /\ i \in C5_Aborting =>
                /\ NoEntityOf(k)
                /\ Len(ErrsOf(k)) = 1
                /\ ErrsOf(k)[1].error_note = C4_Classes[i]
                /\ ErrsOf(k)[1].text = StrRecord(rec, CollatedOrder(log[k].pairs))
            /\ (<<"0">> \notin DOMAIN rec /\ <<"1">> \notin DOMAIN rec) =>
                /\ NoEntityOf(k)
                /\ Len(ErrsOf(k)) = 1
                /\ ErrsOf(k)[1].error_note = <<"N","o"," ","i","d","e","n","t","i","f","i","e","r">>

\* a record with fields but without the fields 0 and 1, and a record with an
\* identifier of no signature, have been processed
C5_Witness ==
    /\ \E k \in Processed :
          /\ DOMAIN log[k].record # {}
          /\ <<"0">> \notin DOMAIN log[k].record
          /\ <<"1">> \notin DOMAIN log[k].record
          /\ Len(ErrsNoted(k, <<"N","o"," ","i","d","e","n","t","i","f","i","e","r">>)) = 1
    /\ \E k \in Processed : Len(ErrsNoted(k, <<"I","n","v","a","l","i","d"," ","i","d","e","n","t","i","f","i","e","r">>)) = 1

-----------------------------------------------------------------------------
(* C6 *)

\* the input of the scenario of C6
C6_Input == <<"0",":","0","2","F","R",".","A","B","C",".","x","y","z","\n","5",":","L","e"," ","T","i","t","r","e","Z","1"," ","S","u","i","t","e","\n","7",":","P","a","r","i","s","-","B","N","F","\n","%","E","n","d",":","\n">>

\* the same record with its fields marked by %, an identifier that holds no x
\* and a work identifier field
C6_Marked == <<"%","0",":","0","2","F","R",".","A","B","C",".","a","b","c","\n","%","1",":","0","2","F","R",".","A","B","C",".","a","b","c","\n","%","5",":","L","e"," ","T","i","t","r","e","Z","1"," ","S","u","i","t","e","\n","%","7",":","P","a","r","i","s","-","B","N","F","\n","%","E","n","d",":","\n">>

\* C6 as claimed: the input gives exactly one Work titled "Le Titre", one
\* Edition with short_title "Le Titre", long_title "Le TitreSuite" and
\* edition_counter "02FR000", one Holding "Paris-BNF", and no ErrorRecord
C6_AsClaimed ==
    (pc = "done" /\ input = C6_Input) =>
        /\ Len(mmf_work) = 1
        /\ mmf_work[1].title = <<"L","e"," ","T","i","t","r","e">>
        /\ Len(mmf_edition) = 1
        /\ mmf_edition[1].short_title = <<"L","e"," ","T","i","t","r","e">>
        /\ mmf_edition[1].long_title = <<"L","e"," ","T","i","t","r","e","S","u","i","t","e">>
        /\ mmf_edition[1].edition_counter = <<"0","2","F","R","0","0","0">>
        /\ Len(mmf_holding) = 1
        /\ mmf_holding[1].lib_name = <<"P","a","r","i","s","-","B","N","F">>
        /\ Len(mmf_error) = 0

\* C6, amended: the input of the scenario holds two raw records.  The empty
\* one after the terminator gives an ErrorRecord noted "No identifier".  The
\* lines of the other do not start with %, so they are joined into the single
\* field 0, "02FR.ABC.xyz 5:Le TitreZ1 Suite 7:Paris-BNF"; it holds an x, so
\* the record is Hidden and gives an ErrorRecord noted "Hidden or deleted".  No
\* Work, Edition, Holding or Reference is produced; successes is 0, errors 1.
\* The record with its fields marked by %, the identifier 02FR.ABC.abc and a
\* field 1 is a Work: it gives one Work titled "Le Titre", one Edition of that
\* Work with short_title "Le Titre", long_title "Le Titre Suite" and
\* edition_counter "02FR000", one Holding "Paris-BNF" of that Edition, and the
\* "No identifier" ErrorRecord of the empty record only.
C6_EndToEnd ==
    /\ (pc = "done" /\ input = C6_Input) =>
        /\ Len(log) = 2
        /\ DOMAIN log[1].record = {}
        /\ DOMAIN log[2].record = {<<"0">>}
        /\ log[2].record[<<"0">>] = <<"0","2","F","R",".","A","B","C",".","x","y","z"," ","5",":","L","e"," ","T","i","t","r","e","Z","1"," ","S","u","i","t","e"," ","7",":","P","a","r","i","s","-","B","N","F">>
        /\ Len(mmf_work) = 0
        /\ Len(mmf_edition) = 0
        /\ Len(mmf_holding) = 0
        /\ Len(mmf_ref) = 0
        /\ Len(mmf_error) = 2
        /\ mmf_error[1].error_note = <<"N","o"," ","i","d","e","n","t","i","f","i","e","r">>
        /\ mmf_error[2].error_note = <<"H","i","d","d","e","n"," ","o","r"," ","d","e","l","e","t","e","d">>
        /\ mmf_error[2].text = <<"{","'","0","'",":"," ","'","0","2","F","R",".","A","B","C",".","x","y","z"," ","5",":","L","e"," ","T","i","t","r","e","Z","1"," ","S","u","i","t","e"," ","7",":","P","a","r","i","s","-","B","N","F","'","}">>
        /\ successes = 0
        /\ errors = 1
    /\ (pc = "done" /\ input = C6_Marked) =>
        /\ Len(mmf_work) = 1
        /\ mmf_work[1].title = <<"L","e"," ","T","i","t","r","e">>
        /\ Len(mmf_edition) = 1
        /\ mmf_edition[1].work_id = 1
        /\ mmf_edition[1].short_title = <<"L","e"," ","T","i","t","r","e">>
        /\ mmf_edition[1].long_title = <<"L","e"," ","T","i","t","r","e"," ","S","u","i","t","e">>
        /\ mmf_edition[1].edition_counter = <<"0","2","F","R","0","0","0">>
        /\ Len(mmf_holding) = 1
        /\ mmf_holding[1].lib_name = <<"P","a","r","i","s","-","B","N","F">>
        /\ mmf_holding[1].edition_id = 1
        /\ Len(mmf_ref) = 0
        /\ Len(mmf_error) = 1
        /\ mmf_error[1].error_note = <<"N","o"," ","i","d","e","n","t","i","f","i","e","r">>
        /\ successes = 1
        /\ errors = 1

\* the input of the scenario has been processed to the end
C6_Witness == pc = "done" /\ input = C6_Input /\ Len(log) = 2

-----------------------------------------------------------------------------
(* C7 *)

\* the k-th record produced an entity
EntityOf(k) == Len(EditionsOf(k)) = 1

\* the key of the Edition the k-th record produced
EditionKeyOf(k) == log[k].editions + 1

\* the key of the Work the k-th record produced
WorkKeyOf(k) == log[k].works + 1

\* the attributes of the entities the k-th record produced
C7_Attributes(k) == DOMAIN log[k].ed \cup DOMAIN log[k].wk

\* the code c of the k-th record has a target attribute on a produced entity
\* and was not found populated already: its value was assigned
C7_Consumed(k, c) ==
    /\ c \notin log[k].unused
    /\ \E table \in {EDITION_CODES, WORK_CODES} :
         \E i \in 1..Len(table) :
            table[i][1] = c /\ table[i][2] \in C7_Attributes(k)

\* the code c is named in an "Unused codes" ErrorRecord of the k-th record that
\* is attached to the Edition it produced
C7_Reported(k, c) ==
    \E j \in 1..Len(ErrsOf(k)) :
        /\ StartsWith(ErrsOf(k)[j].error_note, <<"U","n","u","s","e","d"," ","c","o","d","e","s",":"," ">>)
        /\ ErrsOf(k)[j].edition_id = EditionKeyOf(k)
        /\ FindFrom(ErrsOf(k)[j].error_note, <<"'">> \o c \o <<"'">>, 1) # 0

\* C7 as claimed: for every record that produced an entity, every code of the
\* collated record whose value was not assigned into the Work or the Edition
\* (a code of neither dictionary, a code whose target attribute the entity does
\* not have, a code whose target was already populated) is named in an "Unused
\* codes" ErrorRecord attached to the entity
C7_UnusedReported ==
    \A k \in Processed :
        EntityOf(k) =>
            \A c \in DOMAIN log[k].record : C7_Consumed(k, c) \/ C7_Reported(k, c)

-----------------------------------------------------------------------------
(* C8 *)

\* the characters of a library name: [\w\-]
NameCh == WordCh \cup {"-"}

\* s[i..j] is a library name followed by a hyphen and one to five capitals,
\* between two word boundaries; d is the place of the hyphen
C8_MatchAt(s, i, d, j) ==
    /\ 1 <= i /\ i < d /\ d < j /\ j <= Len(s)
    /\ j - d <= 5
    /\ \A x \in i..(d - 1) : s[x] \in NameCh
    /\ s[d] = "-"
    /\ \A x \in (d + 1)..j : s[x] \in Upper
    /\ Boundary(s, i)
    /\ Boundary(s, j + 1)

\* the holdings field s has a match of the pattern
C8_HasMatch(s) ==
    \E i \in 1..Len(s), d \in 1..Len(s), j \in 1..Len(s) : C8_MatchAt(s, i, d, j)

\* the whole of name is a match of the pattern
C8_IsName(name) == \E d \in 1..Len(name) : C8_MatchAt(name, 1, d, Len(name))

\* C8: on the Edition path and on the Work path the Edition is committed, and
\* when its holdings field is not null: with no match of the pattern the
\* record gives no Holding and exactly one "Junk holdings" ErrorRecord, which
\* references the Edition and quotes the field; with n >= 1 matches it gives
\* exactly n Holdings, the matches in their order, all attached to the Edition,
\* and no "Junk holdings" ErrorRecord.  "Paris-BNF, Lyon-BM" gives exactly the
\* Holdings "Paris-BNF" and "Lyon-BM".
C8_Holdings ==
    \A k \in Processed :
        LET h == log[k].ed["holdings"]
            rows == HoldingsOf(k)
            junk == ErrsNoted(k, <<"J","u","n","k"," ","h","o","l","d","i","n","g","s">>)
        IN  C4_Decided(log[k].record) \in {"Edition", "Work"} =>
              /\ Len(EditionsOf(k)) = 1
              /\ (h # Null /\ ~C8_HasMatch(h)) =>
                    /\ Len(rows) = 0
                    /\ Len(junk) = 1
                    /\ junk[1].edition_id = EditionKeyOf(k)
                    /\ junk[1].text = h
              /\ (h # Null /\ C8_HasMatch(h)) =>
                    /\ Len(rows) >= 1
                    /\ [x \in 1..Len(rows) |-> rows[x].lib_name] = holding_rgx_findall(h)
                    /\ \A x \in 1..Len(rows) :
                          /\ C8_IsName(rows[x].lib_name)
                          /\ rows[x].edition_id = EditionKeyOf(k)
                    /\ Len(junk) = 0
              /\ h = <<"P","a","r","i","s","-","B","N","F",","," ","L","y","o","n","-","B","M">> =>
                    [x \in 1..Len(rows) |-> rows[x].lib_name]
                        = <<<<"P","a","r","i","s","-","B","N","F">>, <<"L","y","o","n","-","B","M">>>>

\* an edition with junk holdings and a princeps with the holdings "Paris-BNF,
\* Lyon-BM" have been processed
C8_Witness ==
    /\ \E k \in Processed :
          /\ C4_Observed(k) = "Edition"
          /\ Len(ErrsNoted(k, <<"J","u","n","k"," ","h","o","l","d","i","n","g","s">>)) = 1
    /\ \E k \in Processed :
          /\ C4_Observed(k) = "Work"
          /\ log[k].ed["holdings"] = <<"P","a","r","i","s","-","B","N","F",","," ","L","y","o","n","-","B","M">>
          /\ Len(HoldingsOf(k)) = 2

-----------------------------------------------------------------------------
(* C9 *)

\* the page numbers of an item, as the places <<first, last>> of the runs of
\* digits that stand between two word boundaries
C9_PageRuns(s) ==
    {r \in (1..Len(s)) \X (1..Len(s)) :
        /\ r[1] <= r[2]
        /\ \A x \in r[1]..r[2] : s[x] \in Digit
        /\ Boundary(s, r[1])
        /\ Boundary(s, r[2] + 1)}

\* the page numbers of an item, in source order
C9_Pages(s) ==
    LET runs == C9_PageRuns(s)
        nth(n) == CHOOSE r \in runs : Cardinality({q \in runs : q[1] < r[1]}) = n - 1
    IN  [n \in 1..Cardinality(runs) |-> SubSeq(s, nth(n)[1], nth(n)[2])]

\* the item without its page numbers, trimmed
C9_WithoutPages(s) ==
    Strip(Keep(s, {x \in 1..Len(s) : \A r \in C9_PageRuns(s) : x < r[1] \/ x > r[2]}))

\* the item without its digits, trimmed
C9_WithoutDigits(s) == Strip(Keep(s, {x \in 1..Len(s) : s[x] \notin Digit}))

\* the name C9 claims for the References of an item: the item with digits
\* stripped when it holds page numbers (the claim names no other item)
C9_NameClaimed(s) ==
    IF C9_PageRuns(s) # {} THEN C9_WithoutDigits(s) ELSE C9_WithoutPages(s)

\* the number of References of an item of the later references
C9_RowsOfItem(s) == IF C9_PageRuns(s) = {} THEN 1 ELSE Cardinality(C9_PageRuns(s))

\* the number of References of the items before the i-th
RECURSIVE C9_RowsBefore(_, _)
C9_RowsBefore(items, i) ==
    IF i <= 1 THEN 0
    ELSE C9_RowsBefore(items, i - 1) + C9_RowsOfItem(items[i - 1])

\* the double-space-delimited items of a field, none for a null field
C9_Items(field) == IF field = Null THEN <<>> ELSE Split(field, <<" "," ">>)

\* the References of every record are those of its items, with Name(item) the
\* name of the References of an item of the later references
C9_Explosion(Name(_)) ==
    \A k \in Processed :
        LET refs == RefsOf(k)
            cr == C9_Items(log[k].wk["contemporary_references"])
            lr == C9_Items(log[k].wk["later_references"])
        IN  /\ C4_Observed(k) # "Work" => Len(refs) = 0
            /\ C4_Observed(k) = "Work" =>
                /\ Len(refs) = Len(cr) + C9_RowsBefore(lr, Len(lr) + 1)
                /\ \A x \in 1..Len(refs) : refs[x].work_id = WorkKeyOf(k)
                /\ \A i \in 1..Len(cr) :
                      /\ refs[i].ref_type = 1
                      /\ refs[i].short_name = cr[i]
                      /\ refs[i].page_num = Null
                /\ \A i \in 1..Len(lr) :
                      LET pages == C9_Pages(lr[i])
                          base == Len(cr) + C9_RowsBefore(lr, i)
                      IN  \A n \in 1..C9_RowsOfItem(lr[i]) :
                            /\ refs[base + n].ref_type = 2
                            /\ refs[base + n].short_name = Name(lr[i])
                            /\ refs[base + n].page_num =
                                  IF Len(pages) = 0 THEN Null ELSE pages[n]

\* C9 as claimed: the References of an item with page numbers are named by the
\* item with its digits stripped
C9_AsClaimed == C9_Explosion(C9_NameClaimed)

\* C9, amended: only a record on the Work path gives References, all attached
\* to the Work created from it.  Each double-space-delimited item of
\* contemporary_references gives exactly one Reference of type contemporary,
\* named by the item, with a null page number.  Each item of later_references
\* with k >= 1 page numbers gives exactly k References of type post-C18, one
\* per page number in source order; an item with no page number gives exactly
\* one, with a null page number.  A page number is a run of digits between two
\* word boundaries; the References of an item are named by the item with its
\* page numbers removed and trimmed, so digits inside a word stay in the name.
C9_References == C9_Explosion(C9_WithoutPages)

\* a princeps has been processed that has contemporary references and, among
\* its later references, an item with two page numbers, an item without digits
\* and an item with a page number and digits inside a word
C9_Witness ==
    \E k \in Processed :
        /\ C4_Observed(k) = "Work"
        /\ Len(C9_Items(log[k].wk["contemporary_references"])) >= 2
        /\ LET lr == C9_Items(log[k].wk["later_references"])
           IN  /\ \E i \in 1..Len(lr) : Cardinality(C9_PageRuns(lr[i])) = 2
               /\ \E i \in 1..Len(lr) : \A x \in 1..Len(lr[i]) : lr[i][x] \notin Digit
               /\ \E i \in 1..Len(lr) :
                     /\ C9_PageRuns(lr[i]) # {}
                     /\ C9_WithoutPages(lr[i]) # C9_WithoutDigits(lr[i])

-----------------------------------------------------------------------------
(* C10 *)

\* the places of the segment markers Z1 and Z2 in a title
C10_Markers(t) ==
    {i \in 1..(Len(t) - 1) : t[i] = "Z" /\ t[i + 1] \in {"1", "2"}}

\* C10: on the Work path, when the raw title (field 5) holds exactly one
\* segment marker, the title of the Work and the short_title of the Edition
\* are the prefix before the marker, the long_title of the Edition is the
\* prefix followed by the rest after the marker, and the marker put back into
\* long_title at the split point gives the raw title; when it holds no marker,
\* long_title, short_title and title are the raw title.
C10_TitleSplit ==
    \A k \in Processed :
        (C4_Observed(k) = "Work" /\ <<"5">> \in DOMAIN log[k].record) =>
            LET t == log[k].record[<<"5">>]
                title == WorksOf(k)[1].title
                short == EditionsOf(k)[1].short_title
                long == EditionsOf(k)[1].long_title
                i == CHOOSE m \in C10_Markers(t) : TRUE
            IN  /\ Cardinality(C10_Markers(t)) = 1 =>
                    /\ title = Sub(t, 1, i - 1)
                    /\ short = Sub(t, 1, i - 1)
                    /\ long = Sub(t, 1, i - 1) \o Sub(t, i + 2, Len(t))
                    /\ Sub(long, 1, i - 1) \o <<"Z", t[i + 1]>> \o Sub(long, i, Len(long)) = t
                /\ Cardinality(C10_Markers(t)) = 0 =>
                    /\ title = t
                    /\ short = t
                    /\ long = t

\* a princeps whose title holds one marker and a princeps whose title holds
\* none have been processed
C10_Witness ==
    /\ \E k \in Processed :
          /\ C4_Observed(k) = "Work"
          /\ <<"5">> \in DOMAIN log[k].record
          /\ Cardinality(C10_Markers(log[k].record[<<"5">>])) = 1
    /\ \E k \in Processed :
          /\ C4_Observed(k) = "Work"
          /\ <<"5">> \in DOMAIN log[k].record
          /\ Cardinality(C10_Markers(log[k].record[<<"5">>])) = 0

-----------------------------------------------------------------------------
(* C11 *)

\* the raw records of the split input
C11_Records == SplitRecords(input)

\* the number of steps the code has taken: one to read the file, two for
\* each record handled (the pop and the branch), one to leave the loop
C11_StepsDone ==
    2 * Len(log)
        + (CASE pc = "start" -> 0
             [] pc = "loop" -> 1
             [] pc = "record" -> 2
             [] pc = "done" -> 2)

\* the code has a step to take: the file is to be read, the loop tests its
\* list, or the popped record falls in a branch of the loop body
C11_CanStep ==
    \/ pc = "start"
    \/ pc = "loop"
    \/ /\ pc = "record"
       /\ C4_Decided(record) \in {C4_Classes[i] : i \in 1..7}

-----------------------------------------------------------------------------
(* C12 *)

\* the (str(key), value) assignments the calls have made, in order
RECURSIVE AssignmentsFrom(_)
AssignmentsFrom(k) ==
    IF k > Len(calls) THEN <<>>
    ELSE [j \in 1..Len(calls[k].items) |->
             <<Str(calls[k].items[j][1]), calls[k].items[j][2]>>]
         \o AssignmentsFrom(k + 1)

Assignments == AssignmentsFrom(1)

\* C12: after any calls of foo[key] = value and foo.update, foo has as many
\* entries as assignments were made, every value is stored as often as it was
\* assigned, each under a key that begins with the key it was assigned under,
\* and no call removes an entry or changes its value; 'bar' = 1 then
\* 'bar' = 2 gives {'bar': 1, 'bar1': 2}.
C12_NothingOverwritten ==
    /\ [](Cardinality(DOMAIN foo) = Len(Assignments))
    /\ [](\A v \in DupeValues :
            Cardinality({k \in DOMAIN foo : foo[k] = v})
                = Cardinality({j \in 1..Len(Assignments) : Assignments[j][2] = v}))
    /\ [](\A j \in 1..Len(Assignments) :
            \E k \in DOMAIN foo :
                StartsWith(k, Assignments[j][1]) /\ foo[k] = Assignments[j][2])
    /\ [](Assignments = <<<<<<"b","a","r">>, 1>>, <<<<"b","a","r">>, 2>>>>
            => foo = SetItem(SetItem(<<>>, <<"b","a","r">>, 1), <<"b","a","r","1">>, 2))
    /\ [][\A k \in DOMAIN foo : k \in DOMAIN foo' /\ foo'[k] = foo[k]]_vars

\* an update with a list and a keyword that repeat a key, then an assignment
\* under an int key that a str key has taken
C12_Witness ==
    /\ Len(calls) = 2
    /\ calls[1].op = "update"
    /\ calls[1].items = <<<<StrKey(<<"1">>), 1>>, <<StrKey(<<"b","a","r">>), 2>>>>
    /\ calls[2] = [op |-> "setitem", raised |-> FALSE, items |-> <<<<IntKey(1), 2>>>>]
    /\ DOMAIN foo = {<<"1">>, <<"1","1">>, <<"b","a","r">>}

-----------------------------------------------------------------------------
(* C13 *)

\* C13: when every assignment made is under one and the same key, the
\* entries are the key and the key followed by 1, 2, 3, ... in the order of
\* the assignments.
C13_Numbered ==
    \A j \in 1..Len(Assignments) :
        (\A i \in 1..Len(Assignments) : Assignments[i][1] = Assignments[1][1])
            => LET key == Assignments[1][1]
                   k == IF j = 1 THEN key ELSE key \o StrInt(j - 1)
               IN  k \in DOMAIN foo /\ foo[k] = Assignments[j][2]

-----------------------------------------------------------------------------
(* C14 *)

\* the string holds the literal
C14_Contains(s, lit) == \E i \in 1..(Len(s) + 1) : MatchAt(s, lit, i)

\* C14: on the Edition path, when the record holds a long title (field 22),
\* the long_title of the Edition contains its text, and when it holds a short
\* title (field 21) as well, long_title is the short title followed by the
\* long title.
C14_LongTitleKept ==
    \A k \in Processed :
        (C4_Observed(k) = "Edition" /\ <<"2","2">> \in DOMAIN log[k].record) =>
            LET long == EditionsOf(k)[1].long_title
            IN  /\ long # Null
                /\ C14_Contains(long, log[k].record[<<"2","2">>])
                /\ <<"2","1">> \in DOMAIN log[k].record =>
                      long = log[k].record[<<"2","1">>] \o log[k].record[<<"2","2">>]

-----------------------------------------------------------------------------
(* C15 *)

\* C15: on the Edition path the identifiers the record supplies are kept: when
\* the record holds a work identifier (field 1) it is the work_identifier of
\* the Edition, when it holds an edition identifier (field 01) it is the
\* ed_identifier of the Edition; an identifier the record does not hold is the
\* match of the identifier pattern in the full identifier.
C15_Backfilled ==
    \A k \in Processed :
        C4_Observed(k) = "Edition" =>
            LET rec == log[k].record
                ed == EditionsOf(k)[1]
            IN  /\ ed.work_identifier =
                      (IF <<"1">> \in DOMAIN rec THEN rec[<<"1">>]
                       ELSE wrk_id_rgx_findall(rec[<<"0">>])[1])
                /\ ed.ed_identifier =
                      (IF <<"0","1">> \in DOMAIN rec THEN rec[<<"0","1">>]
                       ELSE ed_id_rgx_findall(rec[<<"0">>])[1])

-----------------------------------------------------------------------------
(* C16 *)

\* C16: the edition_counter of every Edition is null or at most 7 characters
\* long: on the Edition path it is the first 7 characters of the edition
\* counter field (field 20) of the record, null when the record has none; on
\* the Work path it is the first 4 characters of the work identifier followed
\* by 000, whatever field 20 of the record holds.
C16_EditionCounter ==
    \A k \in Processed :
        EntityOf(k) =>
            LET rec == log[k].record
                counter == EditionsOf(k)[1].edition_counter
            IN  /\ counter = Null \/ Len(counter) <= 7
                /\ C4_Observed(k) = "Edition" =>
                      counter = (IF <<"2","0">> \in DOMAIN rec THEN Prefix(rec[<<"2","0">>], 7)
                                 ELSE Null)
                /\ C4_Observed(k) = "Work" =>
                      /\ counter = Prefix(WorksOf(k)[1].work_identifier, 4) \o <<"0","0","0">>
                      /\ Len(counter) = 7

\* an Edition-path record whose field 20 is longer than 7 characters has been
\* processed
C16_Witness ==
    \E k \in Processed :
        /\ C4_Observed(k) = "Edition"
        /\ <<"2","0">> \in DOMAIN log[k].record
        /\ Len(log[k].record[<<"2","0">>]) > 7
        /\ EditionsOf(k)[1].edition_counter = <<"1","2","3","4","5","6","7">>

-----------------------------------------------------------------------------
(* C17 *)

\* the codes a pair can have: one or two digits, or Incipit
C17_Codes ==
    {<<d>> : d \in Digit} \cup {<<d, e>> : d, e \in Digit} \cup {<<"I","n","c","i","p","i","t">>}

\* the places of a raw record where a field with a code of three digits is
\* written
C17_ThreeDigitFields(r) ==
    {i \in 1..(Len(r) - 4) :
        /\ r[i] = "%"
        /\ \A j \in (i + 1)..(i + 3) : r[j] \in Digit
        /\ r[i + 4] = ":"}

\* C17 as claimed: a field written with a code of three digits yields a pair
\* with that code.
C17_AsClaimed ==
    \A k \in Processed :
        \A i \in C17_ThreeDigitFields(log[k].raw) :
            \E j \in 1..Len(log[k].pairs) :
                log[k].pairs[j][1] = SubSeq(log[k].raw, i + 1, i + 3)

\* C17: the code of every pair the tokenizer extracts is a numeral of one or
\* two digits or Incipit; of a field written with a code of three digits the
\* last two digits are the code, and the record yields the pairs it would
\* yield with the first digit of that code left out.
C17_TwoDigitCodes ==
    \A k \in Processed :
        /\ \A j \in 1..Len(log[k].pairs) : log[k].pairs[j][1] \in C17_Codes
        /\ \A i \in C17_ThreeDigitFields(log[k].raw) :
              /\ \E j \in 1..Len(log[k].pairs) :
                    log[k].pairs[j][1] = SubSeq(log[k].raw, i + 2, i + 3)
              /\ log[k].pairs =
                    Tokenize(Keep(log[k].raw, (1..Len(log[k].raw)) \ {i + 1}))

\* a princeps with the field %011:03 has been processed: the pair has the
\* code 11, and the Work has the value as its bur_references
C17_Witness ==
    \E k \in Processed :
        /\ C17_ThreeDigitFields(log[k].raw) # {}
        /\ \E j \in 1..Len(log[k].pairs) : log[k].pairs[j] = <<<<"1","1">>, <<"0","3">>>>
        /\ C4_Observed(k) = "Work"
        /\ WorksOf(k)[1].bur_references = <<"0","3">>

-----------------------------------------------------------------------------
(* C18 *)

\* the codes an 'Unused codes' note lists
C18_Listed(note) ==
    {c \in Codes(WORK_CODES) \cup Codes(EDITION_CODES) : C14_Contains(note, Repr(c))}

\* C18: every ErrorRecord of a record carries what was set while that record
\* was processed: its edition reference is the Edition the record inserted,
\* and null when the record inserted none; its text is the holdings of the
\* record when the note is 'Junk holdings' and the record itself otherwise;
\* the codes an 'Unused codes' note lists are codes of the record; filename
\* and date are those of the batch in every ErrorRecord.
C18_Isolation ==
    \A k \in Processed :
        \A j \in 1..Len(ErrsOf(k)) :
            LET e == ErrsOf(k)[j]
            IN  /\ e.filename = Filename
                /\ e.date = Today
                /\ e.edition_id = (IF EntityOf(k) THEN EditionKeyOf(k) ELSE NoId)
                /\ e.text = (IF e.error_note = <<"J","u","n","k"," ","h","o","l","d","i","n","g","s">>
                             THEN log[k].ed["holdings"]
                             ELSE StrRecord(log[k].record, CollatedOrder(log[k].pairs)))
                /\ StartsWith(e.error_note, <<"U","n","u","s","e","d"," ","c","o","d","e","s",":"," ">>) =>
                      /\ C18_Listed(e.error_note) # {}
                      /\ C18_Listed(e.error_note) \subseteq DOMAIN log[k].record
                      /\ C18_Listed(e.error_note) = log[k].unused

\* an edition with junk holdings and unused codes was inserted, and after it
\* a record was logged without an entity: its ErrorRecord has no edition and
\* the text of that record
C18_Witness ==
    \E k, j \in Processed :
        /\ k < j
        /\ EntityOf(k)
        /\ Len(ErrsNoted(k, <<"J","u","n","k"," ","h","o","l","d","i","n","g","s">>)) = 1
        /\ Len(ErrsPrefixed(k, <<"U","n","u","s","e","d"," ","c","o","d","e","s",":"," ">>)) = 1
        /\ ~EntityOf(j)
        /\ Len(ErrsOf(j)) = 1
        /\ ErrsOf(j)[1].edition_id = NoId
        /\ ErrsOf(j)[1].text # ErrsOf(k)[2].text
        /\ log[j].record # <<>>

=============================================================================
